---- MODULE Spec2Model ----
(***************************************************************************)
(* Model of the trading-performance analysis core of bothyperdash:         *)
(*   - analyze_address (src/script_portfolio.py), one loop iteration per   *)
(*     step, the series being read one index per iteration;                *)
(*   - the rate-limited batch fetch of enrich_wallet_data                  *)
(*     (src/unified_scraper.py) and fetch_portfolio_data.                  *)
(* Python floats are modelled as exact rationals [n, d] with d = 0 for the *)
(* IEEE specials (0/0 = NaN, 1/0 = +inf, -1/0 = -inf); a running product   *)
(* is kept in factored form so that it stays exact within TLC's integers.  *)
(***************************************************************************)
EXTENDS Integers, Sequences, FiniteSets, Bags, TLC

\* ------------------------------------------------------------------ bounds

\* Longest PnL series read by analyze_address (indices 0 .. MaxLen-1).
MaxLen == 12
\* Longest series of the short runs, which stop before metrics are computed.
ShortLen == 6
\* Most days of one series that are neither transfer days nor the plain day
\* (a gain of 1 on an equity of 10, dates aligned and new).
MaxOddDays == 1
\* Keys of the batch handed to enrich_wallet_data.
NumKeys == 2
\* rate_limit, the limiter's period, in clock ticks.
RateLimit == 2
\* Keys of the batch that is larger than the connection pool.
PoolKeys == 52
MaxSrcLen == 2
MaxFileLen == 3
MaxRows == 2
MaxPositions == 2

\* ------------------------------------------------------- program constants

\* `if len(history.keys()) < 10`
MinHistoryDays == 10
\* `transfer_count > 5`
MaxTransfers == 5
\* `std_pnl < 1e-10`: the floor is 10^-StdFloorExp
StdFloorExp == 10
\* `(365**0.5)`
DaysPerYear == 365
\* `aiohttp.TCPConnector(limit=50)`
ConnLimit == 50
TradesPerDayLimit == 50
NewTraderDays == 30
NewTraderTrades == 500
\* `df['total_trades'] >= 10`
MinTrades == 10

\* ------------------------------------------------------------------ floats

Abs(x) == IF x < 0 THEN -x ELSE x

RECURSIVE GCD(_, _)
GCD(a, b) == IF b = 0 THEN a ELSE GCD(b, a % b)

\* The rational n/d (d > 0) in lowest terms.
Norm(n, d) ==
    IF n = 0 THEN [n |-> 0, d |-> 1]
    ELSE LET g == GCD(Abs(n), d) IN [n |-> n \div g, d |-> d \div g]

F(x) == [n |-> x, d |-> 1]
NaN == [n |-> 0, d |-> 0]
PosInf == [n |-> 1, d |-> 0]
NegInf == [n |-> -1, d |-> 0]

IsNaN(a) == a.d = 0 /\ a.n = 0
IsInf(a) == a.d = 0 /\ a.n # 0
IsFinite(a) == a.d > 0

\* a + b, a - b, a * b of finite operands; a special operand gives NaN (the
\* model never adds or multiplies an infinity).
FAdd(a, b) ==
    IF a.d = 0 \/ b.d = 0 THEN NaN
    ELSE LET g == GCD(a.d, b.d)
             l == (a.d \div g) * b.d
         IN Norm(a.n * (l \div a.d) + b.n * (l \div b.d), l)

FNeg(a) == [n |-> -a.n, d |-> a.d]

FSub(a, b) == FAdd(a, FNeg(b))

FMul(a, b) ==
    IF a.d = 0 \/ b.d = 0 THEN NaN
    ELSE IF a.n = 0 \/ b.n = 0 THEN F(0)
    ELSE LET g1 == GCD(Abs(a.n), b.d)
             g2 == GCD(Abs(b.n), a.d)
         IN [n |-> (a.n \div g1) * (b.n \div g2), d |-> (a.d \div g2) * (b.d \div g1)]

\* a > b; every comparison with NaN is false.
FGt(a, b) ==
    /\ ~IsNaN(a) /\ ~IsNaN(b)
    /\ IF a.d = 0 \/ b.d = 0
       THEN (a = PosInf /\ b # PosInf) \/ (b = NegInf /\ a # NegInf)
       ELSE a.n * b.d > b.n * a.d

FLt(a, b) == FGt(b, a)

\* a == b on floats (NaN equals nothing).
FEq(a, b) == ~IsNaN(a) /\ ~IsNaN(b) /\ a = b

\* Python's max(a, b): b replaces a only if b > a.
PyMax(a, b) == IF FGt(b, a) THEN b ELSE a

\* a / b of finite or NaN operands with b # 0 (Python raises on b = 0, which
\* the callers decide before dividing).
FDiv(a, b) ==
    IF a.d = 0 \/ b.d = 0 THEN NaN
    ELSE IF b.n < 0 THEN FMul(FNeg(a), [n |-> b.d, d |-> -b.n])
    ELSE FMul(a, [n |-> b.d, d |-> b.n])

\* numpy's a / b: a zero divisor gives an infinity or NaN instead of raising.
NpDiv(a, b) ==
    IF IsNaN(a) \/ IsNaN(b) THEN NaN
    ELSE IF b = F(0) THEN (IF a.n = 0 THEN NaN ELSE IF a.n > 0 THEN PosInf ELSE NegInf)
    ELSE FDiv(a, b)

Sign(a) == IF a.n > 0 THEN 1 ELSE IF a.n < 0 THEN -1 ELSE 0

\* ----------------------------------------------- products in factored form

\* A product of floats: NaN, zero, or the bag of its factors other than 1.
POne == [kind |-> "val", f |-> EmptyBag]
PZero == [kind |-> "zero", f |-> EmptyBag]
PNaN == [kind |-> "nan", f |-> EmptyBag]

PMul(p, x) ==
    IF p.kind = "nan" \/ x.d = 0 THEN PNaN
    ELSE IF p.kind = "zero" \/ x.n = 0 THEN PZero
    ELSE IF x = F(1) THEN p
    ELSE [kind |-> "val", f |-> p.f (+) SetToBag({x})]

\* ------------------------------------------------------------ input domains

\* Values float() yields for the [date, value] entries of the two series.
PnlValues == {F(-10), F(-1), F(0), F(1), F(2), NaN}
EquityValues == {F(0), F(10)}

\* equity_history[0][1]: the account may also start below zero.
FirstEquityValues == EquityValues \cup {F(-1)}
\* Shapes of the payload handed to analyze_address.
PayloadShapes == {"ok", "empty", "bad_shape", "missing_history"}
\* What the first PnL entry's date field holds.
FirstDateKinds == {"timestamp", "iso", "unparseable", "falsy", "not_a_pair"}
\* Whole days between a parseable first date and today.
AgeValues == {7}
\* What makes the loop body raise before it has read the day.
RaiseKinds == {"pnl_not_numeric", "equity_too_short"}

\* --------------------------------------------------------------- variables

VARIABLES
    apc,                  \* where analyze_address is: entry, loop, except, done, raised
    i,                    \* loop index into pnl_history / equity_history
    equity_prev,          \* equity_history[i-1][1] of the input, as a float
    trader_age_days,      \* {} for None, {days} otherwise
    history,              \* the dict's values: a bag of day records
    last_key,             \* the record under the most recently written date key
    cumulative_pnl,
    running_max_cum_pnl,
    win_days,
    cum_pnl_pct,
    transfer_count,
    result,               \* <<>> until analyze_address returns, then <<record>>
    ret_site,             \* which return statement produced the result
    exc,                  \* the exception raised inside the try block, "none" if none
    zero_prev_seen,       \* some index read so far had equity_history[i-1][1] == 0
    odd_days,             \* days read so far that were neither transfer nor plain days
    max_len,              \* longest PnL series of this run
    fpc,                  \* where enrich_wallet_data is: portfolio, positions, returned,
                          \* raised; ranked once main has gone on to rank its result
    task,                 \* per key, where the phase's fetch task is
    fate,                 \* per key, what became of the task's request
    results,              \* per key, the triple its task returned, if it has
    portfolio_results,    \* what the first gather returned
    position_results,     \* what the second gather returned
    enriched_data,        \* per key, its entry of the dict enrich_wallet_data builds
    wait,                 \* ticks until the limiter has capacity again
    recent,               \* ages, in ticks, of the requests issued in the current window
    in_limiter,           \* tasks of a large batch waiting for the limiter
    in_pool,              \* ... that called session.post and wait for a connection
    open_conns,           \* ... whose connection is open
    completed             \* ... whose request completed, failed or timed out

\* The accumulators of the loop and the recorded history.
accs == <<cumulative_pnl, running_max_cum_pnl, win_days, cum_pnl_pct, history, last_key>>

\* What the return statements set.
outs == <<result, ret_site>>

avars == <<apc, i, equity_prev, trader_age_days, accs, transfer_count, outs, exc,
           zero_prev_seen, odd_days, max_len>>

\* The state of enrich_wallet_data.
fvars == <<fpc, task, fate, results, portfolio_results, position_results, enriched_data,
           wait, recent>>

\* The state of a batch larger than the connection pool.
pvars == <<in_limiter, in_pool, open_conns, completed>>

VARIABLES
    cpc,                  \* where is_hyper_scraper is: idle, entry, done
    wallet_data,          \* its argument
    is_hyper_scraper      \* what it returned, once it has

\* The state of is_hyper_scraper.
cvars == <<cpc, wallet_data, is_hyper_scraper>>

VARIABLES
    dpc,                  \* where main is with its addresses: start, scraped, loaded,
                          \* table, done
    mode,                 \* "scrape" (--scrape) or "file" (--analyze alone)
    hyperdash_addresses,  \* what scrape_hyperdash returns
    coinglass_addresses,  \* what scrape_coinglass returns
    cmm_addresses,        \* what scrape_coinmarketman returns
    include_cmm,          \* args.include_cmm
    input_rows,           \* the address column of the file args.input
    all_addresses,        \* scrape_all_sources' list
    sources,              \* the provenance map, lower-cased address -> labels
    addresses,            \* main's list of addresses to enrich
    rows                  \* the rows of create_merged_dataframe

\* The state of main's address handling.
dvars == <<dpc, mode, hyperdash_addresses, coinglass_addresses, cmm_addresses, include_cmm,
           input_rows, all_addresses, sources, addresses, rows>>

VARIABLES
    rpc,                      \* where rank_by_performance is: idle, entry, done
    df,                       \* its argument, the table of create_merged_dataframe
    exclude_hyper_scrapers,   \* its options
    min_sharpe,
    max_drawdown,
    ranked_df,                \* the table it returns
    has_rank                  \* whether that table has the score and rank columns

\* The state of rank_by_performance.
rvars == <<rpc, df, exclude_hyper_scrapers, min_sharpe, max_drawdown, ranked_df, has_rank>>

VARIABLES
    xpc,                      \* where extract_position_pnl is: idle, entry, positions,
                              \* loop, finish, except, returned
    payload,                  \* its argument, the clearinghouse state
    pos_result,               \* the dict `result`, and what was returned
    pos_index,                \* the place of `pos` in the position list
    total_unrealized_pnl,
    total_notional

xvars == <<xpc, payload, pos_result, pos_index, total_unrealized_pnl, total_notional>>

\* The state of the functions that run without the network, other than
\* analyze_address.
uvars == <<cvars, dvars, rvars, xvars>>

vars == <<avars, fvars, pvars, uvars>>

\* What analyze_address leaves alone.
frameA == <<max_len, fvars, pvars, uvars>>

\* ------------------------------------------------------ analyze_address

\* sharpe = sqrt(365) * mean / std is kept as its sign and its square.
SharpeZero == [sign |-> 0, sq |-> F(0)]

\* The zeroed record of lines 136-143, 164-171 and 197-204.
Degenerate(age, n) ==
    [sharpe |-> SharpeZero, max_drawdown |-> F(0), win_rate |-> F(0),
     cum_pnl_pct |-> PZero, trader_age_days |-> age, total_trades |-> n]

\* Lines 96-109: the age from the first PnL entry; any parse failure, a falsy
\* date or an entry that is no pair leaves it None.
TraderAge(kind, days) ==
    IF kind \in {"timestamp", "iso"} THEN {days} ELSE {}

\* prev_equity = float(equity_history[i-1][1])
prev_equity == equity_prev

\* Only the upper branch of the test of lines 129-130.
IsTransferOneSided(prev, day_pnl, day_equity) ==
    FGt(FAdd(prev, day_pnl), FMul([n |-> 11, d |-> 10], day_equity))

\* Lines 129-130, with 1.1 and 0.9 as the exact rationals 11/10 and 9/10.
IsTransfer(prev, day_pnl, day_equity) ==
    \/ FGt(FAdd(prev, day_pnl), FMul([n |-> 11, d |-> 10], day_equity))
    \/ FLt(FAdd(prev, day_pnl), FMul([n |-> 9, d |-> 10], day_equity))

\* Line 135.
ShortCircuit(prev, transfers) == FEq(prev, F(0)) \/ transfers > MaxTransfers

\* len(history.keys())
HistoryLen == BagCardinality(history)

RECURSIVE SumReturns(_, _)
SumReturns(S, h) ==
    IF S = {} THEN F(0)
    ELSE LET x == CHOOSE y \in S : TRUE
         IN FAdd(FMul(F(CopiesIn(x, h)), x.daily_pct_pnl), SumReturns(S \ {x}, h))

RECURSIVE SumSqDev(_, _, _)
SumSqDev(S, h, m) ==
    IF S = {} THEN F(0)
    ELSE LET x == CHOOSE y \in S : TRUE
             dev == FSub(x.daily_pct_pnl, m)
         IN FAdd(FMul(F(CopiesIn(x, h)), FMul(dev, dev)), SumSqDev(S \ {x}, h, m))

\* Line 173.
MeanPnl(h) == FDiv(SumReturns(BagToSet(h), h), F(BagCardinality(h)))

\* Line 174: np.std, kept as its square (the population variance).
VarPnl(h) == FDiv(SumSqDev(BagToSet(h), h, MeanPnl(h)), F(BagCardinality(h)))

RECURSIVE CeilDivPow10(_, _)
CeilDivPow10(x, k) == IF k = 0 THEN x ELSE CeilDivPow10((x + 9) \div 10, k - 1)

\* std < 1e-10 for a finite variance n/d: n * 10^20 < d.
BelowFloor(var) == IsFinite(var) /\ var.n < CeilDivPow10(var.d, 2 * StdFloorExp)

\* (365**0.5) * (mean_pnl / std_pnl), a numpy division.
RawSharpe(mean, var) ==
    LET q == NpDiv(FMul(mean, mean), var)
    IN IF IsNaN(mean) \/ IsNaN(var) THEN [sign |-> 0, sq |-> NaN]
       ELSE IF var = F(0) THEN [sign |-> Sign(mean), sq |-> NpDiv(mean, var)]
       ELSE [sign |-> Sign(mean), sq |-> FMul(F(DaysPerYear), q)]

SharpeUnguarded(mean, var) == RawSharpe(mean, var)

\* Lines 177-182.
Sharpe(mean, var) ==
    IF var = F(0) \/ IsNaN(var) \/ BelowFloor(var) THEN SharpeZero
    ELSE LET s == RawSharpe(mean, var)
         IN IF IsInf(s.sq) \/ IsNaN(s.sq) THEN SharpeZero ELSE s

\* Line 184: max over the recorded drawdown_pct values.
MaxDrawdown(h) ==
    LET D == {x.drawdown_pct : x \in BagToSet(h)}
    IN CHOOSE m \in D : \A v \in D : ~FGt(v, m)

\* Lines 187-194.
Computed(h, wins, cum, age) ==
    [sharpe |-> Sharpe(MeanPnl(h), VarPnl(h)),
     max_drawdown |-> MaxDrawdown(h),
     win_rate |-> FDiv(F(wins), F(BagCardinality(h))),
     cum_pnl_pct |-> cum,
     trader_age_days |-> age,
     total_trades |-> BagCardinality(h)]

\* The same with the threshold one day lower.
AfterLoopOneLess(h, wins, cum, age) ==
    IF BagCardinality(h) < MinHistoryDays - 1
    THEN Degenerate(age, BagCardinality(h))
    ELSE Computed(h, wins, cum, age)

\* Lines 163-194: what the code returns once the loop has run out.
AfterLoop(h, wins, cum, age) ==
    IF BagCardinality(h) < MinHistoryDays
    THEN Degenerate(age, BagCardinality(h))
    ELSE Computed(h, wins, cum, age)

\* A drawdown without the clamp at 0.
DrawdownUnclamped(peak, cum) == FSub(peak, cum)

\* Line 146, run before line 148 updates the peak: max(0.0,
\* running_max_cum_pnl - cumulative_pnl).
Drawdown(peak, cum) == PyMax(F(0), FSub(peak, cum))

\* Line 147.
DrawdownPc(drawdown, day_equity) ==
    IF FGt(day_equity, F(0)) THEN FDiv(drawdown, day_equity) ELSE F(0)

\* history[date_pnl] = {...}: a date equal to the latest key overwrites it.
HistoryPut(h, last, rec, same_date) ==
    IF same_date /\ last # <<>>
    THEN (h (-) SetToBag({last[1]})) (+) SetToBag({rec})
    ELSE h (+) SetToBag({rec})

\* Line 152: `if daily_pct_pnl > 0`.
IsWin(daily_pct_pnl) == FGt(daily_pct_pnl, F(0))

\* An except clause that names only the lookup errors.
CatchesLookupErrors(kind) == kind \in {"KeyError", "IndexError"}

\* Line 196: `except Exception` catches every exception the body can raise.
Catches(kind) == kind \in {"KeyError", "IndexError", "TypeError", "ValueError"}

\* The day most series are made of: a gain of 1 on an equity of 10, new date.
IsPlainDay(day_pnl, day_equity, same_date) ==
    day_pnl = F(1) /\ day_equity = F(10) /\ ~same_date

\* The state at the call of analyze_address.
AEntry ==
    /\ apc = "entry"
    /\ i = 1
    /\ equity_prev = F(0)
    /\ trader_age_days = {}
    /\ history = EmptyBag
    /\ last_key = <<>>
    /\ cumulative_pnl = F(0)
    /\ running_max_cum_pnl = F(0)
    /\ win_days = 0
    /\ cum_pnl_pct = POne
    /\ transfer_count = 0
    /\ result = <<>>
    /\ ret_site = "none"
    /\ exc = "none"
    /\ zero_prev_seen = FALSE
    /\ odd_days = 0

\* Lines 92-116: unpack the payload and derive the trader age.
Extract ==
    /\ apc = "entry"
    /\ \E shape \in PayloadShapes, kind \in FirstDateKinds, days \in AgeValues,
          eq0 \in FirstEquityValues :
         /\ shape # "ok" => (kind = "falsy" /\ eq0 = F(0))
         /\ apc' = (IF shape \in {"bad_shape", "missing_history"} THEN "except" ELSE "loop")
         /\ exc' = (IF shape = "bad_shape" THEN "TypeError"
                    ELSE IF shape = "missing_history" THEN "KeyError" ELSE "none")
         /\ trader_age_days' = (IF shape = "ok" THEN TraderAge(kind, days) ELSE {})
         /\ i' = (IF shape = "empty" THEN 0 ELSE 1)
         /\ equity_prev' = eq0
    /\ UNCHANGED <<frameA, accs, transfer_count, outs, zero_prev_seen, odd_days>>

\* The loop runs while i < len(pnl_history); the series may go on up to max_len.
InLoop == apc = "loop" /\ i >= 1 /\ i < max_len

\* Lines 119-123 raise: a value float() rejects, or an equity series shorter
\* than the PnL series.
DayRaises ==
    /\ InLoop
    /\ \E kind \in RaiseKinds :
         exc' = (IF kind = "pnl_not_numeric" THEN "ValueError" ELSE "IndexError")
    /\ apc' = "except"
    /\ UNCHANGED <<frameA, i, equity_prev, trader_age_days, accs, transfer_count,
                   outs, zero_prev_seen, odd_days>>

\* Lines 125-126: the two dates differ.
DayMisaligned(day_pnl, day_equity) ==
    /\ InLoop
    /\ odd_days < MaxOddDays
    /\ odd_days' = odd_days + 1
    /\ i' = i + 1
    /\ equity_prev' = day_equity
    /\ zero_prev_seen' = (zero_prev_seen \/ FEq(prev_equity, F(0)))
    /\ UNCHANGED <<frameA, apc, trader_age_days, accs, transfer_count, outs, exc>>

\* Lines 129-132: a transfer day.
DayTransfer(day_pnl, day_equity) ==
    /\ InLoop
    /\ IsTransfer(prev_equity, day_pnl, day_equity)
    /\ transfer_count <= MaxTransfers
    /\ transfer_count' = transfer_count + 1
    /\ i' = i + 1
    /\ equity_prev' = day_equity
    /\ zero_prev_seen' = (zero_prev_seen \/ FEq(prev_equity, F(0)))
    /\ UNCHANGED <<frameA, apc, trader_age_days, accs, outs, exc, odd_days>>

\* Lines 135-143: the zero-equity / too-many-transfers return.
DayShortCircuit(day_pnl, day_equity) ==
    /\ InLoop
    /\ ~IsTransfer(prev_equity, day_pnl, day_equity)
    /\ ShortCircuit(prev_equity, transfer_count)
    /\ result' = <<Degenerate(trader_age_days, 0)>>
    /\ ret_site' = "short_circuit"
    /\ apc' = "done"
    /\ zero_prev_seen' = (zero_prev_seen \/ FEq(prev_equity, F(0)))
    /\ UNCHANGED <<frameA, i, equity_prev, trader_age_days, accs, transfer_count, exc, odd_days>>

\* Lines 145-161: the day is folded into the accumulators and recorded. A
\* date equal to the latest key comes with the plain day's figures.
DayRecorded(day_pnl, day_equity, same_date) ==
    /\ InLoop
    /\ ~IsTransfer(prev_equity, day_pnl, day_equity)
    /\ ~ShortCircuit(prev_equity, transfer_count)
    /\ same_date => (last_key # <<>> /\ day_pnl = F(1) /\ day_equity = F(10))
    /\ odd_days' = (IF IsPlainDay(day_pnl, day_equity, same_date) THEN odd_days
                    ELSE odd_days + 1)
    /\ odd_days' <= MaxOddDays
    /\ LET cum == FAdd(cumulative_pnl, day_pnl)
           drawdown == Drawdown(running_max_cum_pnl, cum)
           drawdown_pc == DrawdownPc(drawdown, day_equity)
           daily_pct_pnl == FDiv(day_pnl, prev_equity)
           rec == [daily_pct_pnl |-> daily_pct_pnl, drawdown_pct |-> drawdown_pc]
       IN /\ cumulative_pnl' = cum
          /\ running_max_cum_pnl' = PyMax(running_max_cum_pnl, cum)
          /\ cum_pnl_pct' = PMul(cum_pnl_pct, FAdd(F(1), daily_pct_pnl))
          /\ win_days' = (IF IsWin(daily_pct_pnl) THEN win_days + 1 ELSE win_days)
          /\ history' = HistoryPut(history, last_key, rec, same_date)
          /\ last_key' = <<rec>>
    /\ i' = i + 1
    /\ equity_prev' = day_equity
    /\ UNCHANGED <<frameA, apc, trader_age_days, transfer_count, outs, exc, zero_prev_seen>>

\* One iteration of the loop body on the entries read at index i.
Day ==
    \E day_pnl \in PnlValues, day_equity \in EquityValues :
        \/ DayMisaligned(day_pnl, day_equity)
        \/ DayTransfer(day_pnl, day_equity)
        \/ DayShortCircuit(day_pnl, day_equity)
        \/ \E same_date \in BOOLEAN : DayRecorded(day_pnl, day_equity, same_date)

\* Lines 163-194: i has reached len(pnl_history).
LoopExit ==
    /\ apc = "loop"
    /\ result' = <<AfterLoop(history, win_days, cum_pnl_pct, trader_age_days)>>
    /\ ret_site' = (IF HistoryLen < MinHistoryDays THEN "insufficient" ELSE "computed")
    /\ apc' = "done"
    /\ UNCHANGED <<frameA, i, equity_prev, trader_age_days, accs, transfer_count, exc,
                   zero_prev_seen, odd_days>>

\* Lines 196-204: `except Exception` returns the zeroed record; an exception
\* the clause does not catch leaves analyze_address.
ExceptHandler ==
    /\ apc = "except"
    /\ IF Catches(exc)
       THEN /\ result' = <<Degenerate({}, 0)>>
            /\ ret_site' = "except"
            /\ apc' = "done"
       ELSE /\ apc' = "raised"
            /\ UNCHANGED outs
    /\ UNCHANGED <<frameA, i, equity_prev, trader_age_days, accs, transfer_count, exc,
                   zero_prev_seen, odd_days>>

ANext == Extract \/ DayRaises \/ Day \/ LoopExit \/ ExceptHandler

\* ----------------------------------------------------------- fetch layer

Keys == 1 .. NumKeys

\* Python's None, and a value that is not None.
None == <<>>
Some(x) == <<x>>

\* What a 200 response's body can be, and a non-200 status.
ResponseKinds == {"ok", "null_body", "bad_json", "http_err"}

\* The exception a request ends with: aiohttp.ClientError for a failed
\* connection, asyncio.TimeoutError for the 20 s timeout, and the
\* json.JSONDecodeError that r.json(content_type=None) raises on a body that
\* is no JSON.
ExcOf(kind) ==
    CASE kind = "conn_fail" -> "ClientError"
      [] kind = "timeout" -> "TimeoutError"
      [] kind = "bad_json" -> "JSONDecodeError"
      [] OTHER -> "none"

\* An except clause naming aiohttp.ClientError alone.
CaughtClientErrorOnly(e) == e = "ClientError"

\* Line 40 (and 53): `except (aiohttp.ClientError, asyncio.TimeoutError)`.
CaughtByFetch(e) == e \in {"ClientError", "TimeoutError"}

\* A fetch function that labels every triple with the batch's first key.
FetchResultFirstKey(k, kind) ==
    CASE kind = "ok" -> [key |-> 1, data |-> Some("payload"), error |-> None]
      [] kind = "null_body" -> [key |-> 1, data |-> None, error |-> None]
      [] kind = "http_err" -> [key |-> 1, data |-> None, error |-> Some("HTTP 500")]
      [] kind = "conn_fail" -> [key |-> 1, data |-> None, error |-> Some("Cannot connect")]
      [] kind = "timeout" -> [key |-> 1, data |-> None, error |-> Some("")]

\* Lines 34-41: the triple get_portfolio_data / get_clearinghouse_state returns.
\* str(e) is empty for the asyncio.TimeoutError of a timed-out request.
FetchResult(k, kind) ==
    CASE kind = "ok" -> [key |-> k, data |-> Some("payload"), error |-> None]
      [] kind = "null_body" -> [key |-> k, data |-> None, error |-> None]
      [] kind = "http_err" -> [key |-> k, data |-> None, error |-> Some("HTTP 500")]
      [] kind = "conn_fail" -> [key |-> k, data |-> None, error |-> Some("Cannot connect")]
      [] kind = "timeout" -> [key |-> k, data |-> None, error |-> Some("")]

\* Python truthiness of an error string or payload.
Truthy(x) == x # None /\ x[1] # ""

\* AsyncLimiter(1, rate_limit): the bucket of capacity 1 has room once the
\* last token has leaked out.
LimiterAlwaysOpen(w) == TRUE

LimiterHasCapacity(w) == w = 0

\* A connector that hands out connections without a limit.
PoolUnbounded(n) == TRUE

\* TCPConnector(limit=50): a connection is handed out while fewer are open.
PoolHasRoom(n) == n < ConnLimit

OpenConns == Cardinality({k \in Keys : task[k] = "sent"})

\* Lines 80-93 of unified_scraper.py for one triple.
PortfolioEntry(r) ==
    IF ~Truthy(r.error) /\ Truthy(r.data)
    THEN [portfolio_data |-> r.data, analysis |-> Some("metrics"),
          error |-> "unset", positions |-> "unset"]
    ELSE [portfolio_data |-> None, analysis |-> None,
          error |-> r.error, positions |-> "unset"]

\* Lines 109-113 of unified_scraper.py for one triple.
PositionsEntry(entry, r) ==
    IF ~Truthy(r.error) /\ Truthy(r.data)
    THEN [entry EXCEPT !.positions = Some("position_pnl")]
    ELSE [entry EXCEPT !.positions = None]

\* enrich_wallet_data has created one portfolio task per address and awaits
\* the gather.
FInit ==
    /\ fpc = "portfolio"
    /\ task = [k \in Keys |-> "limiter"]
    /\ fate = [k \in Keys |-> "none"]
    /\ results = [k \in Keys |-> None]
    /\ portfolio_results = None
    /\ position_results = None
    /\ enriched_data = [k \in Keys |-> None]
    /\ wait = 0
    /\ recent = <<>>

Fetching == fpc \in {"portfolio", "positions"}

\* What enrich_wallet_data leaves alone.
frameF == <<avars, pvars, uvars>>

\* One tick of the clock: the bucket leaks, the issued requests age.
Tick ==
    /\ Fetching
    /\ wait > 0 \/ recent # <<>>
    /\ wait' = (IF wait > 0 THEN wait - 1 ELSE 0)
    /\ recent' = SelectSeq([j \in 1 .. Len(recent) |-> recent[j] + 1],
                           LAMBDA age : age < RateLimit)
    /\ UNCHANGED <<frameF, fpc, task, fate, results, portfolio_results, position_results,
                   enriched_data>>

\* `async with limiter:` is entered and the task calls session.post.
Issue(k) ==
    /\ Fetching
    /\ task[k] = "limiter"
    /\ LimiterHasCapacity(wait)
    /\ wait' = RateLimit
    /\ recent' = Append(recent, 0)
    /\ task' = [task EXCEPT ![k] = "pool"]
    /\ UNCHANGED <<frameF, fpc, fate, results, portfolio_results, position_results,
                   enriched_data>>

\* The connector hands the request a connection.
Connect(k) ==
    /\ Fetching
    /\ task[k] = "pool"
    /\ PoolHasRoom(OpenConns)
    /\ task' = [task EXCEPT ![k] = "sent"]
    /\ UNCHANGED <<frameF, fpc, fate, results, portfolio_results, position_results,
                   enriched_data, wait, recent>>

\* The request of key k ends as `kind` says: the fetch function returns its
\* triple, or an exception it does not catch ends the task.
Finish(k, kind) ==
    /\ fate' = [fate EXCEPT ![k] = kind]
    /\ IF ExcOf(kind) = "none" \/ CaughtByFetch(ExcOf(kind))
       THEN /\ task' = [task EXCEPT ![k] = "done"]
            /\ results' = [results EXCEPT ![k] = Some(FetchResult(k, kind))]
       ELSE /\ task' = [task EXCEPT ![k] = "raised"]
            /\ UNCHANGED results
    /\ UNCHANGED <<frameF, fpc, portfolio_results, position_results, enriched_data,
                   wait, recent>>

\* No connection could be made.
ConnectFails(k) ==
    /\ Fetching
    /\ task[k] = "pool"
    /\ Finish(k, "conn_fail")

\* The response arrives.
Respond(k) ==
    /\ Fetching
    /\ task[k] = "sent"
    /\ \E kind \in ResponseKinds : Finish(k, kind)

\* A request without a timeout.
NeverTimesOut(k) == FALSE

\* ClientTimeout(total=20) expires, in the pool's queue or on the wire.
Timeout(k) ==
    /\ Fetching
    /\ task[k] \in {"pool", "sent"}
    /\ Finish(k, "timeout")

\* Lines 77-107 of unified_scraper.py: the portfolio gather returns, the
\* triples are processed and the positions tasks are created.
PortfolioGathered ==
    /\ fpc = "portfolio"
    /\ \A k \in Keys : task[k] = "done"
    /\ portfolio_results' = Some([k \in Keys |-> results[k][1]])
    /\ enriched_data' = [k \in Keys |-> Some(PortfolioEntry(results[k][1]))]
    /\ task' = [k \in Keys |-> "limiter"]
    /\ fate' = [k \in Keys |-> "none"]
    /\ results' = [k \in Keys |-> None]
    /\ fpc' = "positions"
    /\ UNCHANGED <<frameF, position_results, wait, recent>>

\* Lines 107-115 of unified_scraper.py: the positions gather returns, the
\* triples are processed and enrich_wallet_data returns.
PositionsGathered ==
    /\ fpc = "positions"
    /\ \A k \in Keys : task[k] = "done"
    /\ position_results' = Some([k \in Keys |-> results[k][1]])
    /\ enriched_data' =
           [k \in Keys |-> Some(PositionsEntry(enriched_data[k][1], results[k][1]))]
    /\ fpc' = "returned"
    /\ UNCHANGED <<frameF, task, fate, results, portfolio_results, wait, recent>>

\* gather(return_exceptions=False): the exception of a task is raised in
\* enrich_wallet_data, which has no handler for it.
GatherRaises ==
    /\ Fetching
    /\ \E k \in Keys : task[k] = "raised"
    /\ fpc' = "raised"
    /\ UNCHANGED <<frameF, task, fate, results, portfolio_results, position_results,
                   enriched_data, wait, recent>>

\* main ranks as soon as the fetches have been started.
RankAnytime == fpc \in {"portfolio", "positions", "returned"}

\* Lines 509-527 of unified_scraper.py: asyncio.run(enrich_wallet_data(...))
\* has returned when main goes on.
RankMayRun == fpc = "returned"

\* Lines 513-527 of unified_scraper.py: main builds the table and ranks it.
MainRanks ==
    /\ RankMayRun
    /\ fpc' = "ranked"
    /\ UNCHANGED <<frameF, task, fate, results, portfolio_results, position_results,
                   enriched_data, wait, recent>>

FNext ==
    \/ Tick
    \/ \E k \in Keys : Issue(k) \/ Connect(k) \/ ConnectFails(k) \/ Respond(k) \/ Timeout(k)
    \/ PortfolioGathered
    \/ PositionsGathered
    \/ GatherRaises
    \/ MainRanks

\* The event loop runs every ready task and delivers a task's exception to
\* the gather awaiting it, the clock advances, and a request that is waiting
\* for a connection or a response meets its 20 s timeout: while one of these
\* steps is possible, one of them is eventually taken.  A response is the
\* server's to give, and a connection the connector's: no fairness for them.
FairFetch ==
    WF_vars(\/ Tick
            \/ \E k \in Keys : Issue(k) \/ Timeout(k)
            \/ PortfolioGathered
            \/ PositionsGathered
            \/ GatherRaises)

\* ------------------------------------- a batch larger than the connector

\* fetch_portfolio_data has created one task per address.
PInit ==
    /\ in_limiter = PoolKeys
    /\ in_pool = 0
    /\ open_conns = 0
    /\ completed = 0

\* What the large batch leaves alone.
frameP == <<avars, fvars, uvars>>

\* A task leaves the limiter and calls session.post.
PoolIssue ==
    /\ in_limiter > 0
    /\ in_limiter' = in_limiter - 1
    /\ in_pool' = in_pool + 1
    /\ UNCHANGED <<frameP, open_conns, completed>>

\* The connector hands a waiting request a connection.
PoolConnect ==
    /\ in_pool > 0
    /\ PoolHasRoom(open_conns)
    /\ in_pool' = in_pool - 1
    /\ open_conns' = open_conns + 1
    /\ UNCHANGED <<frameP, in_limiter, completed>>

\* A request waiting for a connection fails or times out.
PoolGiveUp ==
    /\ in_pool > 0
    /\ in_pool' = in_pool - 1
    /\ completed' = completed + 1
    /\ UNCHANGED <<frameP, in_limiter, open_conns>>

\* A request on an open connection completes, fails or times out; the
\* connection is released.
PoolRelease ==
    /\ open_conns > 0
    /\ open_conns' = open_conns - 1
    /\ completed' = completed + 1
    /\ UNCHANGED <<frameP, in_limiter, in_pool>>

PNext == PoolIssue \/ PoolConnect \/ PoolGiveUp \/ PoolRelease

\* ------------------------------------------------------- specifications

\* --------------------------------------------------- is_hyper_scraper

\* A value of analysis.get(key, 0): the key is missing, or holds None or an
\* integer.
Missing == [kind |-> "missing", v |-> 0]
PyNone == [kind |-> "none", v |-> 0]
PyInt(n) == [kind |-> "int", v |-> n]

\* dict.get(key, default)
Get(field, default) == IF field.kind = "missing" THEN PyInt(default) ELSE field

\* The truth value Python gives the operand of `and`: None and 0 are false.
PyTrue(x) == x.kind = "int" /\ x.v # 0

\* The wallets is_hyper_scraper is called with: no record, a record without
\* the 'analysis' key, with analysis None (the fetch failed), with an empty
\* analysis, or with metrics.
TraderAges == {Missing, PyNone} \cup {PyInt(n) : n \in {-5, 0, 1, 5, 10, 29, 30, 400}}
TradeCounts == {Missing} \cup {PyInt(n) : n \in {-1, 0, 10, 500, 501, 600, 1500, 20001}}
WalletShapes == {"no_record", "no_analysis_key", "analysis_none", "analysis_empty"}
Wallets ==
    [shape : WalletShapes, total_trades : {Missing}, trader_age_days : {Missing}]
    \cup [shape : {"metrics"}, total_trades : TradeCounts, trader_age_days : TraderAges]

\* Line 126: `not wallet_data or 'analysis' not in wallet_data or not
\* wallet_data['analysis']`.
NoAnalysis(w) == w.shape # "metrics"

\* A classifier that takes an unset age for an age of 0 days.
IsHyperScraperUnsetAsZero(w) ==
    LET total == Get(w.total_trades, 0).v
        age == Get(w.trader_age_days, 0).v
    IN  \/ age > 0 /\ FGt(FDiv(F(total), F(age)), F(TradesPerDayLimit))
        \/ age < NewTraderDays /\ total > NewTraderTrades

\* Lines 126-145.
IsHyperScraper(w) ==
    IF NoAnalysis(w) THEN FALSE
    ELSE LET total_trades_ == Get(w.total_trades, 0)
             trader_age_days_ == Get(w.trader_age_days, 0)
         IN  \/ /\ PyTrue(trader_age_days_)
                 /\ trader_age_days_.v > 0
                 /\ FGt(FDiv(F(total_trades_.v), F(trader_age_days_.v)), F(TradesPerDayLimit))
             \/ /\ PyTrue(trader_age_days_)
                 /\ trader_age_days_.v < NewTraderDays
                 /\ total_trades_.v > NewTraderTrades

\* is_hyper_scraper is not running.
CIdle ==
    /\ cpc = "idle"
    /\ wallet_data = [shape |-> "no_record", total_trades |-> Missing,
                      trader_age_days |-> Missing]
    /\ is_hyper_scraper = None

\* is_hyper_scraper is called with some wallet.
CInit ==
    /\ cpc = "entry"
    /\ wallet_data \in Wallets
    /\ is_hyper_scraper = None

frameC == <<avars, fvars, pvars, dvars, rvars, xvars>>

\* Lines 118-145: the call returns.
Classify ==
    /\ cpc = "entry"
    /\ is_hyper_scraper' = Some(IsHyperScraper(wallet_data))
    /\ cpc' = "done"
    /\ UNCHANGED <<frameC, wallet_data>>

CNext == Classify

\* ------------------------------------ scraping, deduplication, the table

\* Addresses: two spellings of one wallet and another wallet.
Addrs == {"a", "A", "b"}

\* An address comparison that distinguishes letter case.
KeepCase(addr) == addr

\* str.lower()
Lower(addr) == IF addr = "A" THEN "a" ELSE addr

\* The lists of at most n elements of S.
SeqsUpTo(S, n) == UNION {[1 .. m -> S] : m \in 0 .. n}

\* d[key] = val on a dict.
Put(d, key, val) == [x \in DOMAIN d \cup {key} |-> IF x = key THEN val ELSE d[x]]

\* The empty dict.
EmptyDict == [x \in {} |-> <<>>]

\* Lines 164-165: every hyperdash address is labelled 'hyperdash'.  A label
\* string is kept as the sequence of the labels its commas join.
RECURSIVE MarkHyperdash(_, _)
MarkHyperdash(list, src) ==
    IF list = <<>> THEN src
    ELSE MarkHyperdash(Tail(list), Put(src, Lower(Head(list)), <<"hyperdash">>))

\* A merge in which the latest source replaces the earlier labels.
AddLabelOverwrite(src, key, label) == Put(src, key, <<label>>)

\* Lines 175-178 and 194-197: the label starts the string or is appended to it.
AddLabel(src, key, label) ==
    IF key \notin DOMAIN src THEN Put(src, key, <<label>>)
    ELSE Put(src, key, Append(src[key], label))

\* Lines 174-178 and 193-197.
RECURSIVE MergeSource(_, _, _)
MergeSource(list, src, label) ==
    IF list = <<>> THEN src
    ELSE MergeSource(Tail(list), AddLabel(src, Lower(Head(list)), label), label)

\* Lines 213-217.
RECURSIVE DedupLoop(_, _, _)
DedupLoop(list, seen, unique_addresses) ==
    IF list = <<>> THEN unique_addresses
    ELSE LET addr == Head(list)
             addr_lower == Lower(addr)
         IN  IF addr_lower \notin seen
             THEN DedupLoop(Tail(list), seen \cup {addr_lower}, Append(unique_addresses, addr))
             ELSE DedupLoop(Tail(list), seen, unique_addresses)

\* A loop that forgets an address when it meets it again.
RECURSIVE ForgetfulLoop(_, _, _)
ForgetfulLoop(list, seen, unique_addresses) ==
    IF list = <<>> THEN unique_addresses
    ELSE LET addr == Head(list)
             addr_lower == Lower(addr)
         IN  IF addr_lower \notin seen
             THEN ForgetfulLoop(Tail(list), seen \cup {addr_lower},
                                Append(unique_addresses, addr))
             ELSE ForgetfulLoop(Tail(list), seen \ {addr_lower}, unique_addresses)

DeduplicateForgetful(list) == ForgetfulLoop(list, {}, <<>>)

\* Lines 208-219.
DeduplicateAddresses(list) == DedupLoop(list, {}, <<>>)

\* Lines 497-499: the file's rows fill the provenance map; the file has no
\* source column, so every row's label is 'unknown'.
RECURSIVE LoadSources(_, _)
LoadSources(list, src) ==
    IF list = <<>> THEN src
    ELSE LoadSources(Tail(list), Put(src, Lower(Head(list)), <<"unknown">>))

\* Lines 80-93 of enrich_wallet_data: enriched_data[address] = ... for every
\* result; a dict keeps a key at the place of its first insertion.
RECURSIVE DictKeys(_, _)
DictKeys(list, keys) ==
    IF list = <<>> THEN keys
    ELSE IF \E j \in 1 .. Len(keys) : keys[j] = Head(list)
         THEN DictKeys(Tail(list), keys)
         ELSE DictKeys(Tail(list), Append(keys, Head(list)))

\* Lines 226-230: a row per key of enriched_data, with its provenance.
Row(address, src) ==
    [address |-> address,
     sources |-> IF Lower(address) \in DOMAIN src THEN src[Lower(address)]
                 ELSE <<"unknown">>]

\* main is not running.
DIdle ==
    /\ dpc = "idle"
    /\ mode = "scrape"
    /\ hyperdash_addresses = <<>>
    /\ coinglass_addresses = <<>>
    /\ cmm_addresses = <<>>
    /\ include_cmm = FALSE
    /\ input_rows = <<>>
    /\ all_addresses = <<>>
    /\ sources = EmptyDict
    /\ addresses = <<>>
    /\ rows = <<>>

\* Lines 459-460: main starts, with --scrape or with --analyze alone; the
\* scrapers' results and the file's content are inputs.
DInit ==
    /\ dpc = "start"
    /\ mode \in {"scrape", "file"}
    /\ include_cmm \in BOOLEAN
    /\ hyperdash_addresses \in SeqsUpTo(Addrs, MaxSrcLen)
    /\ coinglass_addresses \in SeqsUpTo(Addrs, MaxSrcLen)
    /\ cmm_addresses \in SeqsUpTo(Addrs, MaxSrcLen)
    /\ input_rows \in SeqsUpTo(Addrs, MaxFileLen)
    /\ mode = "scrape" => input_rows = <<>>
    /\ mode = "file" => /\ hyperdash_addresses = <<>>
                        /\ coinglass_addresses = <<>>
                        /\ cmm_addresses = <<>>
                        /\ include_cmm = FALSE
    /\ ~include_cmm => cmm_addresses = <<>>
    /\ all_addresses = <<>>
    /\ sources = EmptyDict
    /\ addresses = <<>>
    /\ rows = <<>>

frameD == <<avars, fvars, pvars, cvars, rvars, xvars>>

inputsD == <<mode, hyperdash_addresses, coinglass_addresses, cmm_addresses, include_cmm,
             input_rows>>

\* Lines 148-205, called at line 468.
ScrapeAllSources ==
    /\ dpc = "start"
    /\ mode = "scrape"
    /\ LET s1 == MarkHyperdash(hyperdash_addresses, EmptyDict)
           s2 == MergeSource(coinglass_addresses, s1, "coinglass")
           s3 == IF include_cmm THEN MergeSource(cmm_addresses, s2, "coinmarketman")
                 ELSE s2
       IN  /\ sources' = s3
           /\ all_addresses' = hyperdash_addresses \o coinglass_addresses
                                  \o (IF include_cmm THEN cmm_addresses ELSE <<>>)
    /\ dpc' = "scraped"
    /\ UNCHANGED <<frameD, inputsD, addresses, rows>>

\* Line 482.
Deduplicate ==
    /\ dpc = "scraped"
    /\ addresses' = DeduplicateAddresses(all_addresses)
    /\ dpc' = "loaded"
    /\ UNCHANGED <<frameD, inputsD, all_addresses, sources, rows>>

\* Lines 488-499.
LoadFile ==
    /\ dpc = "start"
    /\ mode = "file"
    /\ addresses' = input_rows
    /\ sources' = LoadSources(input_rows, EmptyDict)
    /\ dpc' = "loaded"
    /\ UNCHANGED <<frameD, inputsD, all_addresses, rows>>

\* Lines 503-515: the addresses are enriched and the table is built.
EnrichAndMerge ==
    /\ dpc = "loaded"
    /\ addresses # <<>>
    /\ LET keys == DictKeys(addresses, <<>>)
       IN  rows' = [j \in 1 .. Len(keys) |-> Row(keys[j], sources)]
    /\ dpc' = "table"
    /\ UNCHANGED <<frameD, inputsD, all_addresses, sources, addresses>>

\* Line 503: without addresses nothing is enriched.
NothingToEnrich ==
    /\ dpc = "loaded"
    /\ addresses = <<>>
    /\ dpc' = "done"
    /\ UNCHANGED <<frameD, inputsD, all_addresses, sources, addresses, rows>>

DNext == ScrapeAllSources \/ Deduplicate \/ LoadFile \/ EnrichAndMerge \/ NothingToEnrich

\* ------------------------------------------------- rank_by_performance

\* a >= b and a <= b on floats.
FGe(a, b) == FGt(a, b) \/ FEq(a, b)
FLe(a, b) == FLt(a, b) \/ FEq(a, b)

\* The rows of the table: the metric columns the ranker reads; idx is the
\* row's label in the DataFrame's index.
SharpeValues == {Norm(3, 2), F(2)}
DrawdownValues == {Norm(3, 10), Norm(1, 2)}
WinRates == {Norm(2, 5), Norm(3, 5)}
\* A drawdown of k * 1e-24, such as rounding leaves behind.  32-bit
\* arithmetic cannot hold 1e24, so the value is carried as k / 1000000 and
\* the double-precision operations below treat it as what it stands for.
Tiny(k) == [n |-> k, d |-> 1000000]

\* Below 1/1000 in magnitude: no other value of the model is.
IsTiny(a) == a.d > 0 /\ a.n # 0 /\ Abs(a.n) * 1000 < a.d

\* Lines 233-240: the metric columns of a wallet whose analysis is the
\* zeroed record, after a short-circuit or an exception (no recorded day)
\* or for want of history (nine recorded days at most).
DegenerateRows ==
    {[sharpe_ratio |-> F(Degenerate({}, n).sharpe.sign),
      max_drawdown |-> Degenerate({}, n).max_drawdown,
      win_rate |-> Degenerate({}, n).win_rate,
      total_trades |-> Degenerate({}, n).total_trades,
      is_hyper_scraper |-> FALSE] : n \in {0, MinHistoryDays - 1}}

\* Wallets with ten usable days that are not flagged, in every combination
\* of the metrics, three that differ from the best of them by a NaN
\* drawdown, by one day less, or by the flag, two with a drawdown of 1e-24
\* and of twice that, and the wallets with a zeroed record.
Metrics ==
    [sharpe_ratio : SharpeValues, max_drawdown : DrawdownValues, win_rate : WinRates,
     total_trades : {10}, is_hyper_scraper : {FALSE}]
    \cup {[sharpe_ratio |-> F(2), max_drawdown |-> NaN, win_rate |-> Norm(3, 5),
            total_trades |-> 10, is_hyper_scraper |-> FALSE],
           [sharpe_ratio |-> F(2), max_drawdown |-> Norm(3, 10), win_rate |-> Norm(3, 5),
            total_trades |-> 9, is_hyper_scraper |-> FALSE],
           [sharpe_ratio |-> F(2), max_drawdown |-> Norm(3, 10), win_rate |-> Norm(3, 5),
            total_trades |-> 10, is_hyper_scraper |-> TRUE],
           [sharpe_ratio |-> F(2), max_drawdown |-> Tiny(1), win_rate |-> Norm(3, 5),
            total_trades |-> 10, is_hyper_scraper |-> FALSE],
           [sharpe_ratio |-> F(2), max_drawdown |-> Tiny(2), win_rate |-> Norm(3, 5),
            total_trades |-> 10, is_hyper_scraper |-> FALSE]}
    \cup DegenerateRows

WithIdx(m, j) ==
    [idx |-> j, sharpe_ratio |-> m.sharpe_ratio, max_drawdown |-> m.max_drawdown,
     win_rate |-> m.win_rate, total_trades |-> m.total_trades,
     is_hyper_scraper |-> m.is_hyper_scraper]

\* The tables of 1 .. MaxRows rows (main ranks only if it has addresses).
Tables ==
    UNION {{[j \in 1 .. n |-> WithIdx(t[j], j)] : t \in [1 .. n -> Metrics]} :
           n \in 1 .. MaxRows}

\* The options: the defaults (lines 273-274) with and without the
\* exclusion, and with it stricter thresholds and a min_sharpe of 0.
RankConfigs ==
    [exclude : BOOLEAN, limits : {<<Norm(3, 2), Norm(1, 2)>>}]
    \cup [exclude : {TRUE}, limits : {<<F(2), Norm(3, 10)>>, <<F(0), Norm(1, 2)>>}]

\* Line 278: df[df['is_hyper_scraper'] == False]
NotHyper(t) == SelectSeq(t, LAMBDA r : r.is_hyper_scraper = FALSE)

\* A filter that wants the Sharpe ratio above the minimum.
MeetsCriteriaStrict(r, lo, hi) ==
    /\ FGt(r.sharpe_ratio, lo)
    /\ FLe(r.max_drawdown, hi)
    /\ r.total_trades >= MinTrades

\* The criteria without the minimum of recorded days.
MeetsCriteriaAnyHistory(r, lo, hi) ==
    /\ FGe(r.sharpe_ratio, lo)
    /\ FLe(r.max_drawdown, hi)

\* Lines 282-284.
MeetsCriteria(r, lo, hi) ==
    /\ FGe(r.sharpe_ratio, lo)
    /\ FLe(r.max_drawdown, hi)
    /\ r.total_trades >= MinTrades

\* Lines 277-285.
Survivors(t, excl, lo, hi) ==
    LET t1 == IF excl THEN NotHyper(t) ELSE t
    IN  SelectSeq(t1, LAMBDA r : MeetsCriteria(r, lo, hi))

\* Series.min() and Series.max() of a column of finite values.
ColMin(t, col) ==
    LET vals == {t[j][col] : j \in 1 .. Len(t)}
    IN  CHOOSE x \in vals : \A y \in vals : ~FLt(y, x)
ColMax(t, col) ==
    LET vals == {t[j][col] : j \in 1 .. Len(t)}
    IN  CHOOSE x \in vals : \A y \in vals : ~FGt(y, x)

\* The quantities that hold the 1e-6 of lines 292, 296 and 300 are kept as
\* polynomials in it, <<c0, c1, c2, c3>> for c0 + c1 e + c2 e^2 + c3 e^3
\* with exact rational coefficients (real arithmetic, no rounding).
PolyConst(x) == <<x, F(0), F(0), F(0)>>
PolyAdd(p, q) == <<FAdd(p[1], q[1]), FAdd(p[2], q[2]), FAdd(p[3], q[3]), FAdd(p[4], q[4])>>
\* p * (x + 1e-6), for p of degree 2 at most
PolyTimesDen(p, x) ==
    <<FMul(x, p[1]), FAdd(FMul(x, p[2]), p[1]), FAdd(FMul(x, p[3]), p[2]),
      FAdd(FMul(x, p[4]), p[3])>>

FAbs(a) == [n |-> Abs(a.n), d |-> a.d]

\* The place of the first nonzero coefficient of p, 0 if there is none.
Leading(p) ==
    IF p[1] # F(0) THEN 1 ELSE IF p[2] # F(0) THEN 2 ELSE IF p[3] # F(0) THEN 3
    ELSE IF p[4] # F(0) THEN 4 ELSE 0

\* Whether the later coefficients of p cannot outweigh its first nonzero
\* one at e = 1e-6: 1000 times that coefficient is at least their sum.
EpsNegligible(p) ==
    CASE Leading(p) = 1 ->
             FGe(FMul(F(1000), FAbs(p[1])), FAdd(FAbs(p[2]), FAdd(FAbs(p[3]), FAbs(p[4]))))
      [] Leading(p) = 2 -> FGe(FMul(F(1000), FAbs(p[2])), FAdd(FAbs(p[3]), FAbs(p[4])))
      [] Leading(p) = 3 -> FGe(FMul(F(1000), FAbs(p[3])), FAbs(p[4]))
      [] OTHER -> TRUE

\* The sign of p at e = 1e-6: that of its first nonzero coefficient.
SignAtEps(p) == IF Leading(p) = 0 THEN 0 ELSE Sign(p[Leading(p)])

\* A normalisation that divides by the bare spread: 0 / 0 where the column
\* has one value only.
NormalizedNoEpsilon(x, lo, hi) ==
    [c |-> F(0), num |-> IF hi = lo THEN NaN ELSE FSub(x, lo), den |-> FSub(hi, lo)]

\* Lines 291-292 and 299-300: (x - min) / (max - min + 1e-6), kept as the
\* constant c, the numerator and the spread: c + num / (den + 1e-6).
Normalized(x, lo, hi) == [c |-> F(0), num |-> FSub(x, lo), den |-> FSub(hi, lo)]

\* x - y in double precision: next to a value that is not tiny a tiny one
\* is rounded away.
DSub(x, y) ==
    IF IsTiny(y) /\ ~IsTiny(x) /\ x # F(0) THEN x
    ELSE IF IsTiny(x) /\ ~IsTiny(y) /\ y # F(0) THEN FNeg(y)
    ELSE FSub(x, y)

\* A drawdown term that grows with the drawdown.
NotInverted(x, lo, hi) == [c |-> F(0), num |-> DSub(x, lo), den |-> DSub(hi, lo)]

\* Lines 295-296: 1 - (x - min) / (max - min + 1e-6) in double precision: a
\* tiny spread is rounded away by the 1e-6 added to it, and a tiny numerator
\* gives a quotient of 1e-18 at most, which is rounded away by the 1 it is
\* subtracted from.
Inverted(x, lo, hi) ==
    LET num == DSub(x, lo)
        den == DSub(hi, lo)
    IN  [c |-> F(1), num |-> IF IsTiny(num) THEN F(0) ELSE FNeg(num),
         den |-> IF IsTiny(den) THEN F(0) ELSE den]

Weighted(w, term) == [c |-> FMul(w, term.c), num |-> FMul(w, term.num), den |-> term.den]

\* The minimum and the maximum of each column the score reads.
Extremes(t) ==
    [sharpe_lo |-> ColMin(t, "sharpe_ratio"), sharpe_hi |-> ColMax(t, "sharpe_ratio"),
     drawdown_lo |-> ColMin(t, "max_drawdown"), drawdown_hi |-> ColMax(t, "max_drawdown"),
     winrate_lo |-> ColMin(t, "win_rate"), winrate_hi |-> ColMax(t, "win_rate")]

\* Lines 291-307: the three weighted terms of the score of row r in a table
\* with the extremes x.
PerformanceScore(r, x) ==
    <<Weighted(Norm(1, 2), Normalized(r.sharpe_ratio, x.sharpe_lo, x.sharpe_hi)),
      Weighted(Norm(3, 10), Inverted(r.max_drawdown, x.drawdown_lo, x.drawdown_hi)),
      Weighted(Norm(1, 5), Normalized(r.win_rate, x.winrate_lo, x.winrate_hi))>>

\* The column performance_score of table t.
RECURSIVE ScoresFrom(_, _, _)
ScoresFrom(t, x, j) ==
    IF j > Len(t) THEN <<>>
    ELSE <<PerformanceScore(t[j], x)>> \o ScoresFrom(t, x, j + 1)
Scores(t) == ScoresFrom(t, Extremes(t), 1)

\* p - q for two scores of one table (equal spreads), times the three
\* positive denominators.
ScoreDiff(p, q) ==
    LET k == FSub(FAdd(FAdd(p[1].c, p[2].c), p[3].c), FAdd(FAdd(q[1].c, q[2].c), q[3].c))
        n1 == FSub(p[1].num, q[1].num)
        n2 == FSub(p[2].num, q[2].num)
        n3 == FSub(p[3].num, q[3].num)
        d1 == p[1].den
        d2 == p[2].den
        d3 == p[3].den
    IN  PolyAdd(PolyAdd(PolyTimesDen(PolyTimesDen(PolyTimesDen(PolyConst(k), d1), d2), d3),
                        PolyTimesDen(PolyTimesDen(PolyConst(n1), d2), d3)),
                PolyAdd(PolyTimesDen(PolyTimesDen(PolyConst(n2), d1), d3),
                        PolyTimesDen(PolyTimesDen(PolyConst(n3), d1), d2)))

\* -1, 0 or 1 as score p is below, equal to or above score q.
ScoreCmp(p, q) == SignAtEps(ScoreDiff(p, q))

\* A sort that leaves the rows in any order.
AnyOrders(sc) ==
    {o \in [1 .. Len(sc) -> 1 .. Len(sc)] : \A j, h \in 1 .. Len(sc) : j # h => o[j] # o[h]}

\* Line 310: sort_values('performance_score', ascending=False) with the
\* default sort, which is not stable: every order of the places of the
\* scores sc in which no score is followed by a higher one.
RECURSIVE OrdersOf(_, _)
OrdersOf(places, sc) ==
    IF places = {} THEN {<<>>}
    ELSE UNION {{<<m>> \o o : o \in OrdersOf(places \ {m}, sc)} :
                m \in {a \in places : \A b \in places : ScoreCmp(sc[a], sc[b]) >= 0}}
SortedOrders(sc) == OrdersOf(1 .. Len(sc), sc)

\* Returned rows whose sharpe_ratio has been replaced by its distance from
\* the column's minimum.
RankedInPlace(t, sc, o) ==
    [j \in 1 .. Len(t) |->
        [row |-> [t[o[j]] EXCEPT !.sharpe_ratio = sc[o[j]][1].num],
         performance_score |-> sc[o[j]], rank |-> j]]

\* Line 311 and the returned rows: the row, its score and its rank.
Ranked(t, sc, o) ==
    [j \in 1 .. Len(t) |-> [row |-> t[o[j]], performance_score |-> sc[o[j]], rank |-> j]]

\* rank_by_performance is not running.
RIdle ==
    /\ rpc = "idle"
    /\ df = <<>>
    /\ exclude_hyper_scrapers = TRUE
    /\ min_sharpe = Norm(3, 2)
    /\ max_drawdown = Norm(1, 2)
    /\ ranked_df = <<>>
    /\ has_rank = FALSE

\* rank_by_performance is called with some table and options.
RInit ==
    /\ rpc = "entry"
    /\ df \in Tables
    /\ \E c \in RankConfigs :
          /\ exclude_hyper_scrapers = c.exclude
          /\ min_sharpe = c.limits[1]
          /\ max_drawdown = c.limits[2]
    /\ ranked_df = <<>>
    /\ has_rank = FALSE

frameR == <<avars, fvars, pvars, cvars, dvars, xvars>>

\* Lines 277-313 when rows survive the filter.
RankSurvivors ==
    /\ rpc = "entry"
    /\ LET t == Survivors(df, exclude_hyper_scrapers, min_sharpe, max_drawdown)
       IN  /\ Len(t) > 0
           /\ \E o \in SortedOrders(Scores(t)) : ranked_df' = Ranked(t, Scores(t), o)
    /\ has_rank' = TRUE
    /\ rpc' = "done"
    /\ UNCHANGED <<frameR, df, exclude_hyper_scrapers, min_sharpe, max_drawdown>>

\* Lines 277-289 and 313 when none does: the empty table is returned.
RankNone ==
    /\ rpc = "entry"
    /\ Len(Survivors(df, exclude_hyper_scrapers, min_sharpe, max_drawdown)) = 0
    /\ ranked_df' = <<>>
    /\ has_rank' = FALSE
    /\ rpc' = "done"
    /\ UNCHANGED <<frameR, df, exclude_hyper_scrapers, min_sharpe, max_drawdown>>

RNext == RankSurvivors \/ RankNone

\* ------------------------------------------------- extract_position_pnl

\* Values of the payload's fields next to those of the classifier: a number
\* or a string that float() parses, a string it does not, and an integer too
\* large for a double.
NumStr(n) == [kind |-> "numstr", v |-> n]
BadStr == [kind |-> "badstr", v |-> 0]
HugeInt == [kind |-> "huge", v |-> 0]

\* dict.get(key): None for a key that is not there.
GetOrNone(field) == IF field.kind = "missing" THEN PyNone ELSE field

\* float(value) raises OverflowError, which line 213 does not name.
SafeFloatRaises(value) == value.kind = "huge"

\* Lines 207-214: None and what float() rejects with ValueError or
\* TypeError become the default.
safe_float(value, default) ==
    IF value.kind = "none" THEN default
    ELSE IF value.kind = "numstr" THEN F(value.v)
    ELSE default

\* data['marginSummary']: the key is missing, or holds null, a list, or an
\* object with some of its two fields.
MarginSummaries ==
    {[kind |-> k, accountValue |-> Missing, totalMarginUsed |-> Missing] :
        k \in {"missing", "none", "list"}}
    \cup [kind : {"dict"},
          accountValue : {Missing, NumStr(10), NumStr(0), BadStr, HugeInt},
          totalMarginUsed : {PyNone, NumStr(4)}]

\* An entry of data['assetPositions']: null, a string, or an object whose
\* 'position' is missing, null, a string or an object with some of its
\* fields.  The 'asset' of an entry is not a number and is left out.
PositionEntries ==
    {[kind |-> k, position |-> "missing", unrealizedPnl |-> Missing, notional |-> Missing] :
        k \in {"none", "str"}}
    \cup {[kind |-> "dict", position |-> p, unrealizedPnl |-> Missing, notional |-> Missing] :
            p \in {"missing", "none", "str"}}
    \cup [kind : {"dict"}, position : {"dict"},
          unrealizedPnl : {Missing, NumStr(-3), BadStr},
          notional : {PyNone, NumStr(-20)}]

\* data['assetPositions']: missing, null, a number, or a list of entries.
AssetPositions ==
    {[kind |-> k, items |-> <<>>] : k \in {"missing", "none", "num"}}
    \cup {[kind |-> "list", items |-> l] : l \in SeqsUpTo(PositionEntries, MaxPositions)}

\* A falsy payload: None or {}.
EmptyPayload ==
    [empty |-> TRUE,
     marginSummary |-> [kind |-> "missing", accountValue |-> Missing,
                        totalMarginUsed |-> Missing],
     assetPositions |-> [kind |-> "missing", items |-> <<>>]]

\* The payloads: a falsy one, and the objects with the two keys.
Payloads ==
    {EmptyPayload}
    \cup [empty : {FALSE}, marginSummary : MarginSummaries, assetPositions : AssetPositions]

\* The numeric keys of the returned dict.
NumericFields ==
    {"account_value", "total_margin_used", "available_margin", "unrealized_pnl",
     "total_notional_pos", "num_positions", "exposure_pct"}

\* Line 222: result = {}.  kind tells what was returned: nothing yet
\* ("unset"), None, the dict `result` ("snapshot") or {'error': ...}.
EmptyResult(kind) == [kind |-> kind, fields |-> [f \in NumericFields |-> None]]

\* result.get(key, 0)
ResultGet(r, key) == IF r.fields[key] = None THEN F(0) ELSE r.fields[key][1]

\* The positions the loop runs over: `positions = []` for null.
Positions == IF payload.assetPositions.kind = "list" THEN payload.assetPositions.items ELSE <<>>

\* extract_position_pnl is not running.
XIdle ==
    /\ xpc = "idle"
    /\ payload = EmptyPayload
    /\ pos_result = EmptyResult("unset")
    /\ pos_index = 1
    /\ total_unrealized_pnl = F(0)
    /\ total_notional = F(0)

\* extract_position_pnl is called with some payload.
XInit ==
    /\ xpc = "entry"
    /\ payload \in Payloads
    /\ pos_result = EmptyResult("unset")
    /\ pos_index = 1
    /\ total_unrealized_pnl = F(0)
    /\ total_notional = F(0)

frameX == <<avars, fvars, pvars, cvars, dvars, rvars>>

\* Lines 219-220: `if not data: return None`.
ReturnNone ==
    /\ xpc = "entry"
    /\ payload.empty
    /\ pos_result' = EmptyResult("none")
    /\ xpc' = "returned"
    /\ UNCHANGED <<frameX, payload, pos_index, total_unrealized_pnl, total_notional>>

\* Lines 225-235: the margin summary.  `.get` on a value that is no object
\* raises AttributeError.
MarginSummary ==
    /\ xpc = "entry"
    /\ ~payload.empty
    /\ LET m == payload.marginSummary
           account_value == safe_float(GetOrNone(m.accountValue), F(0))
           total_margin_used == safe_float(GetOrNone(m.totalMarginUsed), F(0))
       IN  CASE m.kind = "missing" ->
                  /\ xpc' = "positions"
                  /\ UNCHANGED pos_result
             [] m.kind = "none" ->
                  /\ xpc' = "positions"
                  /\ pos_result' =
                         [pos_result EXCEPT !.fields["account_value"] = Some(F(0)),
                                            !.fields["total_margin_used"] = Some(F(0)),
                                            !.fields["available_margin"] = Some(F(0))]
             [] m.kind = "list" ->
                  /\ xpc' = "except"
                  /\ UNCHANGED pos_result
             [] m.kind = "dict" ->
                  IF SafeFloatRaises(GetOrNone(m.accountValue))
                     \/ SafeFloatRaises(GetOrNone(m.totalMarginUsed))
                  THEN /\ xpc' = "except"
                       /\ UNCHANGED pos_result
                  ELSE /\ xpc' = "positions"
                       /\ pos_result' =
                              [pos_result EXCEPT
                                  !.fields["account_value"] = Some(account_value),
                                  !.fields["total_margin_used"] = Some(total_margin_used),
                                  !.fields["available_margin"] =
                                      Some(FSub(account_value, total_margin_used))]
    /\ UNCHANGED <<frameX, payload, pos_index, total_unrealized_pnl, total_notional>>

\* Lines 238-247: the position list is looked up; without the key the loop
\* and lines 275-278 are skipped; a value that cannot be iterated raises
\* TypeError.
PositionsLookup ==
    /\ xpc = "positions"
    /\ xpc' = (CASE payload.assetPositions.kind = "missing" -> "finish"
                 [] payload.assetPositions.kind = "num" -> "except"
                 [] OTHER -> "loop")
    /\ UNCHANGED <<frameX, payload, pos_result, pos_index, total_unrealized_pnl,
                   total_notional>>

\* Lines 248-273: one entry of the list.
PositionEntry ==
    /\ xpc = "loop"
    /\ pos_index <= Len(Positions)
    /\ LET pos == Positions[pos_index]
           unrealized_pnl == safe_float(GetOrNone(pos.unrealizedPnl), F(0))
           notional == safe_float(GetOrNone(pos.notional), F(0))
       IN  CASE pos.kind = "none" ->
                  /\ pos_index' = pos_index + 1
                  /\ UNCHANGED <<xpc, total_unrealized_pnl, total_notional>>
             [] pos.kind = "str" \/ pos.position = "str" ->
                  /\ xpc' = "except"
                  /\ UNCHANGED <<pos_index, total_unrealized_pnl, total_notional>>
             [] OTHER ->
                  /\ total_unrealized_pnl' = FAdd(total_unrealized_pnl, unrealized_pnl)
                  /\ total_notional' = FAdd(total_notional, FAbs(notional))
                  /\ pos_index' = pos_index + 1
                  /\ UNCHANGED xpc
    /\ UNCHANGED <<frameX, payload, pos_result>>

\* Lines 275-278: the totals and len(positions) go into the result.
PositionsDone ==
    /\ xpc = "loop"
    /\ pos_index > Len(Positions)
    /\ pos_result' =
           [pos_result EXCEPT !.fields["unrealized_pnl"] = Some(total_unrealized_pnl),
                              !.fields["total_notional_pos"] = Some(total_notional),
                              !.fields["num_positions"] = Some(F(Len(Positions)))]
    /\ xpc' = "finish"
    /\ UNCHANGED <<frameX, payload, pos_index, total_unrealized_pnl, total_notional>>

\* Lines 280-285: the three keys that get a default.
WithDefaults(r) ==
    [r EXCEPT !.fields["num_positions"] = IF @ = None THEN Some(F(0)) ELSE @,
              !.fields["unrealized_pnl"] = IF @ = None THEN Some(F(0)) ELSE @,
              !.fields["total_notional_pos"] = IF @ = None THEN Some(F(0)) ELSE @]

\* Lines 287-293.
ExposurePct(r) ==
    IF FGt(ResultGet(r, "account_value"), F(0))
    THEN FMul(FDiv(ResultGet(r, "total_margin_used"), ResultGet(r, "account_value")), F(100))
    ELSE F(0)

\* Lines 280-295: defaults, exposure, return result.
ReturnResult ==
    /\ xpc = "finish"
    /\ pos_result' = [WithDefaults(pos_result) EXCEPT
                         !.kind = "snapshot",
                         !.fields["exposure_pct"] = Some(ExposurePct(pos_result))]
    /\ xpc' = "returned"
    /\ UNCHANGED <<frameX, payload, pos_index, total_unrealized_pnl, total_notional>>

\* Lines 297-298: every exception gives {'error': str(e)}.
ReturnError ==
    /\ xpc = "except"
    /\ pos_result' = EmptyResult("error")
    /\ xpc' = "returned"
    /\ UNCHANGED <<frameX, payload, pos_index, total_unrealized_pnl, total_notional>>

XNext ==
    \/ ReturnNone
    \/ MarginSummary
    \/ PositionsLookup
    \/ PositionEntry
    \/ PositionsDone
    \/ ReturnResult
    \/ ReturnError

\* ------------------------------------------------------------- the specs

\* None of the functions that run without the network is running.
UIdle == CIdle /\ DIdle /\ RIdle /\ XIdle

Init == AEntry /\ max_len = MaxLen /\ FInit /\ PInit /\ UIdle

InitShort == AEntry /\ max_len = ShortLen /\ FInit /\ PInit /\ UIdle

\* Everything but is_hyper_scraper is at rest.
InitClassify == AEntry /\ max_len = MaxLen /\ FInit /\ PInit /\ CInit /\ DIdle /\ RIdle /\ XIdle

\* Everything but main's address handling is at rest.
InitAddresses == AEntry /\ max_len = MaxLen /\ FInit /\ PInit /\ CIdle /\ DInit /\ RIdle /\ XIdle

\* Everything but rank_by_performance is at rest.
InitRank == AEntry /\ max_len = MaxLen /\ FInit /\ PInit /\ CIdle /\ DIdle /\ RInit /\ XIdle

SpecAnalyze == Init /\ [][ANext]_vars

SpecAnalyzeShort == InitShort /\ [][ANext]_vars

SpecFetch == Init /\ [][FNext]_vars

SpecFetchFair == Init /\ [][FNext]_vars /\ FairFetch

SpecPool == Init /\ [][PNext]_vars

SpecClassify == InitClassify /\ [][CNext]_vars

SpecAddresses == InitAddresses /\ [][DNext]_vars

SpecRank == InitRank /\ [][RNext]_vars

\* Everything but extract_position_pnl is at rest.
InitPositions ==
    AEntry /\ max_len = MaxLen /\ FInit /\ PInit /\ CIdle /\ DIdle /\ RIdle /\ XInit

SpecPositions == InitPositions /\ [][XNext]_vars

\* ------------------------------------------- properties of analyze_address

\* The four metric fields of the zeroed record.
IsZeroed(r) ==
    /\ r.sharpe = SharpeZero
    /\ r.max_drawdown = F(0)
    /\ r.win_rate = F(0)
    /\ r.cum_pnl_pct = PZero

\* Recorded days whose daily return is > 0.
RECURSIVE PositiveDays(_, _)
PositiveDays(S, h) ==
    IF S = {} THEN 0
    ELSE LET x == CHOOSE y \in S : TRUE
         IN (IF FGt(x.daily_pct_pnl, F(0)) THEN CopiesIn(x, h) ELSE 0)
            + PositiveDays(S \ {x}, h)

\* C1: once some index has seen a transfer count above 5 or a prior-day equity
\* of 0, the record analyze_address returns is the zeroed degenerate record,
\* whatever the later days hold.
C1_ShortCircuitDeterminism ==
    (apc = "done" /\ (zero_prev_seen \/ transfer_count > MaxTransfers))
        => IsZeroed(result[1])

\* C2: on a day whose two dates match and whose figures satisfy
\* prev_equity + day_pnl > 1.1 * day_equity or < 0.9 * day_equity, the transfer
\* counter grows by exactly one and cumulative PnL, running peak, return
\* multiplier, win-day counter and history stay as they were, while the day's
\* equity becomes the next day's prev_equity; every recorded day's return is
\* day_pnl / (equity at the preceding index).
C2_TransferDayFrame ==
    [][\A dp \in PnlValues, de \in EquityValues :
          /\ ( /\ \/ FGt(FMul(F(10), FAdd(equity_prev, dp)), FMul(F(11), de))
                  \/ FLt(FMul(F(10), FAdd(equity_prev, dp)), FMul(F(9), de))
               /\ \/ DayTransfer(dp, de)
                  \/ DayShortCircuit(dp, de)
                  \/ \E sd \in BOOLEAN : DayRecorded(dp, de, sd) )
             => ( /\ transfer_count' = transfer_count + 1
                  /\ UNCHANGED accs
                  /\ equity_prev' = de )
          /\ ( /\ i' = i + 1
               /\ equity_prev' = de
               /\ cumulative_pnl' = FAdd(cumulative_pnl, dp)
               /\ \E sd \in BOOLEAN : DayRecorded(dp, de, sd) )
             => last_key'[1].daily_pct_pnl = FDiv(dp, equity_prev)
      ]_vars

\* C2 as stated, for every day at an index >= 1, its dates matching or not.
C2_TransferDayFrameAnyDay ==
    [][\A dp \in PnlValues, de \in EquityValues :
          ( /\ \/ FGt(FMul(F(10), FAdd(equity_prev, dp)), FMul(F(11), de))
               \/ FLt(FMul(F(10), FAdd(equity_prev, dp)), FMul(F(9), de))
            /\ \/ DayMisaligned(dp, de)
               \/ DayTransfer(dp, de)
               \/ DayShortCircuit(dp, de)
               \/ \E sd \in BOOLEAN : DayRecorded(dp, de, sd) )
          => ( /\ transfer_count' = transfer_count + 1
               /\ UNCHANGED accs )
      ]_vars

\* A transfer day was skipped and later days were recorded against it.
C2_Witness ==
    /\ apc = "loop"
    /\ transfer_count > 0
    /\ HistoryLen >= 2
    /\ cumulative_pnl # F(0)

\* C3: with no transfer days and at least 10 usable days, win_rate equals the
\* number of usable days with a positive daily return divided by the usable
\* day count reported as total_trades.
C3_WinRate ==
    (apc = "done" /\ ret_site = "computed" /\ transfer_count = 0)
        => result[1].win_rate =
               FDiv(F(PositiveDays(BagToSet(history), history)),
                    F(result[1].total_trades))

\* C4: the returned sharpe is finite for every input, and it is 0 whenever the
\* standard deviation of the recorded returns is 0, NaN or below 1e-10.
C4_SharpeFinite ==
    apc = "done" =>
        /\ IsFinite(result[1].sharpe.sq)
        /\ ( /\ HistoryLen > 0
             /\ \/ VarPnl(history) = F(0)
                \/ IsNaN(VarPnl(history))
                \/ BelowFloor(VarPnl(history)) )
           => result[1].sharpe = SharpeZero

\* Metrics were computed from ten equal nonzero returns.
C4_Witness ==
    /\ apc = "done" /\ ret_site = "computed"
    /\ VarPnl(history) = F(0)
    /\ MeanPnl(history) # F(0)

\* C5: when the loop ends without a short-circuit with fewer than 10 recorded
\* days, the result is the zeroed record carrying the derived trader age and
\* total_trades equal to the number of recorded days.
C5_InsufficientHistory ==
    ( /\ apc = "done"
      /\ ret_site \notin {"short_circuit", "except"}
      /\ HistoryLen < MinHistoryDays )
        => result = <<Degenerate(trader_age_days, HistoryLen)>>

\* Nine days, some of them wins, were recorded for a wallet of known age.
C5_Witness ==
    /\ apc = "done" /\ ret_site = "insufficient"
    /\ HistoryLen = MinHistoryDays - 1
    /\ win_days > 0
    /\ trader_age_days # {}

\* C6: analyze_address never raises; it returns a record for every payload,
\* and after an exception that record is the zeroed record with
\* trader_age_days None and total_trades 0, whatever age had been derived.
C6_NeverRaises ==
    /\ apc # "raised"
    /\ apc = "done" => Len(result) = 1
    /\ (apc = "done" /\ exc # "none") => result = <<Degenerate({}, 0)>>

\* An exception struck after an age was derived and days were recorded.
C6_Witness ==
    /\ apc = "done" /\ exc # "none"
    /\ trader_age_days # {}
    /\ HistoryLen > 0

\* ----------------------------------------- properties of the fetch layer

\* C7: a timeout, a failed connection or a non-200 status on one key's request
\* gives that key the triple (key, None, error string) and is not raised to
\* the caller; when a gather returns it holds a triple for every key.
C7_TransportFailuresRecorded ==
    /\ \A k \in Keys :
          fate[k] \in {"timeout", "conn_fail", "http_err"} =>
              /\ task[k] = "done"
              /\ results[k] # None
              /\ results[k][1].key = k
              /\ results[k][1].data = None
              /\ results[k][1].error # None
    /\ fpc = "raised" => \E k \in Keys : fate[k] = "bad_json"
    /\ portfolio_results # None =>
           \A k \in Keys : portfolio_results[1][k].key = k
    /\ position_results # None =>
           \A k \in Keys : position_results[1][k].key = k

\* The batch returned although one key timed out, another got a non-200
\* status, and a third request brought a payload.
C7_Witness ==
    /\ fpc = "returned"
    /\ \E k \in Keys : position_results[1][k].error = Some("")
    /\ \E k \in Keys : portfolio_results[1][k].error = Some("HTTP 500")
    /\ \E k \in Keys : position_results[1][k].data # None

\* C8: whatever one wallet's fetch returns or fails with, the batch call
\* returns and every wallet of the batch has its entry in the output.
C8_NoWalletFatal ==
    /\ fpc # "raised"
    /\ fpc = "returned" => \A k \in Keys : enriched_data[k] # None

\* C9: across both phases, no two requests are issued within one window of
\* RateLimit ticks (the window taken half-open).
C9_OneRequestPerWindow == Len(recent) <= 1

\* In the positions phase a task is held back by the limiter while another
\* key's request is on the wire.
C9_Witness ==
    /\ fpc = "positions"
    /\ Len(recent) = 1
    /\ wait > 0
    /\ \E k \in Keys : task[k] = "limiter"
    /\ \E k \in Keys : task[k] = "sent"

\* C10: at most ConnLimit connections are open at any time, for a batch of any
\* size.
C10_OpenConnectionsCapped == open_conns <= ConnLimit

\* The pool is full and further requests wait for a connection.
C10_Witness ==
    /\ open_conns = ConnLimit
    /\ in_pool > 0

\* C11: a gather returns only in a state where every task of the batch has
\* returned its triple, and what it returns holds exactly one triple per key,
\* the one that key's task returned, carrying that key.
C11_GatherReturnsAll ==
    [][ /\ portfolio_results' # portfolio_results =>
             /\ \A k \in Keys : task[k] = "done" /\ results[k] # None
             /\ DOMAIN portfolio_results'[1] = Keys
             /\ \A k \in Keys : /\ portfolio_results'[1][k] = results[k][1]
                                /\ portfolio_results'[1][k].key = k
        /\ position_results' # position_results =>
             /\ \A k \in Keys : task[k] = "done" /\ results[k] # None
             /\ DOMAIN position_results'[1] = Keys
             /\ \A k \in Keys : /\ position_results'[1][k] = results[k][1]
                                /\ position_results'[1][k].key = k
        /\ (fpc' = "returned" /\ fpc # "returned") =>
             position_results' # None /\ portfolio_results # None
      ]_vars

\* Both gathers have returned, the keys' requests having ended differently.
C11_Witness ==
    /\ fpc = "returned"
    /\ \E k1, k2 \in Keys :
          /\ k1 # k2
          /\ position_results[1][k1].data # None
          /\ position_results[1][k2].data = None

\* C12: under fair scheduling the batch call eventually ends even if requests
\* never get a response, and it ends by returning unless a response body that
\* is no JSON was received; a request that ended by its timeout is recorded
\* as an error triple of its key.
C12_BatchTerminates ==
    /\ <>(fpc \in {"returned", "raised"})
    /\ [](fpc = "raised" => \E k \in Keys : fate[k] = "bad_json")
    /\ [](\A k \in Keys : (task[k] = "done" /\ fate[k] = "timeout") =>
              /\ results[k] # None
              /\ results[k][1].key = k
              /\ results[k][1].data = None
              /\ results[k][1].error # None)

\* The batch returned although no request of the portfolio phase was answered.
C12_Witness ==
    /\ fpc = "returned"
    /\ \A k \in Keys : portfolio_results[1][k].error = Some("")

\* C13: analysis happens only once every portfolio fetch has ended, no
\* positions request is issued before the portfolio results are processed,
\* positions are extracted only once every positions fetch has ended, and
\* ranking follows the return of enrich_wallet_data.
C13_PhaseBarrier ==
    /\ (\E k \in Keys : enriched_data[k] # None) =>
           /\ portfolio_results # None
           /\ \A k \in Keys : enriched_data[k] # None
    /\ (fpc = "portfolio") => \A k \in Keys : enriched_data[k] = None
    /\ (\E k \in Keys : enriched_data[k] # None /\ enriched_data[k][1].positions # "unset") =>
           position_results # None
    /\ (position_results = None /\ portfolio_results # None /\ fpc = "positions") =>
           \A k \in Keys : enriched_data[k][1].positions = "unset"
    /\ fpc = "ranked" =>
           /\ position_results # None
           /\ \A k \in Keys : enriched_data[k] # None /\ enriched_data[k][1].positions # "unset"

\* main has ranked a batch of which one wallet was analyzed and another not.
C13_Witness ==
    /\ fpc = "ranked"
    /\ \E k1, k2 \in Keys :
          /\ enriched_data[k1][1].analysis # None
          /\ enriched_data[k2][1].analysis = None

\* ------------------------------------------ properties of is_hyper_scraper

\* C14: for a wallet with a metrics record holding an integer age and an
\* integer count, is_hyper_scraper returns true exactly when
\* (age > 0 and count / age > 50) or (age < 30 and count > 500).
C14_HyperScraperFormula ==
    (/\ cpc = "done"
     /\ wallet_data.shape = "metrics"
     /\ wallet_data.trader_age_days.kind = "int"
     /\ wallet_data.total_trades.kind = "int") =>
        LET age == wallet_data.trader_age_days.v
            total == wallet_data.total_trades.v
        IN  is_hyper_scraper[1] <=>
                \/ age > 0 /\ total > 50 * age
                \/ age < 30 /\ total > 500

\* C15: a wallet without a metrics record, or whose trader_age_days is None
\* or missing, is never flagged, whatever its total_trades.
C15_NoEvidenceNoFlag ==
    (/\ cpc = "done"
     /\ \/ wallet_data.shape # "metrics"
        \/ wallet_data.trader_age_days.kind # "int") =>
        is_hyper_scraper = Some(FALSE)

\* A record with 600 usable days and no age has been classified.
C15_Witness ==
    /\ cpc = "done"
    /\ wallet_data.shape = "metrics"
    /\ wallet_data.trader_age_days = PyNone
    /\ wallet_data.total_trades = PyInt(600)
    /\ is_hyper_scraper = Some(FALSE)

\* ------------------------------------- properties of the address pipeline

\* Two spellings of the same wallet.
SameWallet(x, y) == x = y \/ {x, y} = {"a", "A"}

\* The places of the first spelling of each wallet in a list.
FirstPlaces(list) ==
    {j \in 1 .. Len(list) : \A h \in 1 .. j - 1 : ~SameWallet(list[h], list[j])}

\* C16: the deduplicated list has no two entries that are the same wallet,
\* every input address has its wallet in it, and its entries are the first
\* occurrences of the wallets in the input, with their casing, in their order.
C16_DedupFirstSeen ==
    dpc = "loaded" /\ mode = "scrape" =>
        /\ \A j, h \in 1 .. Len(addresses) :
               j # h => ~SameWallet(addresses[j], addresses[h])
        /\ \A j \in 1 .. Len(all_addresses) :
               \E h \in 1 .. Len(addresses) : SameWallet(all_addresses[j], addresses[h])
        /\ Len(addresses) = Cardinality(FirstPlaces(all_addresses))
        /\ \A h \in 1 .. Len(addresses) :
               \E j \in FirstPlaces(all_addresses) :
                   /\ addresses[h] = all_addresses[j]
                   /\ Cardinality({g \in FirstPlaces(all_addresses) : g < j}) = h - 1

\* A list with a wallet in two spellings, the capitals first, has been
\* deduplicated.
C16_Witness ==
    /\ dpc = "loaded"
    /\ mode = "scrape"
    /\ Len(all_addresses) >= 3
    /\ all_addresses[1] = "b"
    /\ all_addresses[2] = "A"
    /\ \E j \in 3 .. Len(all_addresses) : all_addresses[j] = "a"
    /\ addresses = <<"b", "A">>

\* C17: deduplicating the deduplicated list gives the same list.
C17_DedupIdempotent ==
    dpc = "loaded" /\ mode = "scrape" =>
        DeduplicateAddresses(addresses) = addresses

\* A list in which a wallet occurs three times has been deduplicated.
C17_Witness ==
    /\ dpc = "loaded"
    /\ mode = "scrape"
    /\ Cardinality({j \in 1 .. Len(all_addresses) : SameWallet(all_addresses[j], "a")}) >= 3
    /\ Len(addresses) < Len(all_addresses)

\* The source lists by label, in the order they are scraped.
SourceLabels == <<"hyperdash", "coinglass", "coinmarketman">>

Scraped(label) ==
    CASE label = "hyperdash" -> hyperdash_addresses
      [] label = "coinglass" -> coinglass_addresses
      [] label = "coinmarketman" -> IF include_cmm THEN cmm_addresses ELSE <<>>

Holds(list, x) == \E j \in 1 .. Len(list) : SameWallet(list[j], x)

LabelPlace(label) == CHOOSE n \in 1 .. 3 : SourceLabels[n] = label

\* C18: after the merge every scraped address has an entry under its
\* lower-cased spelling, the entry's labels are those of the sources whose
\* list held the address, in source order, and nothing else has an entry.
C18_Provenance ==
    dpc \in {"scraped", "loaded", "table", "done"} /\ mode = "scrape" =>
        /\ \A x \in Addrs :
               (\E n \in 1 .. 3 : Holds(Scraped(SourceLabels[n]), x)) =>
                   \E k \in DOMAIN sources :
                       /\ SameWallet(k, x)
                       /\ k \in {"a", "b"}
                       /\ \A n \in 1 .. 3 :
                              (\E j \in 1 .. Len(sources[k]) : sources[k][j] = SourceLabels[n])
                                  <=> Holds(Scraped(SourceLabels[n]), x)
                       /\ \A j, h \in 1 .. Len(sources[k]) :
                              j < h => LabelPlace(sources[k][j]) <= LabelPlace(sources[k][h])
        /\ \A k \in DOMAIN sources :
               k \in {"a", "b"} /\ \E n \in 1 .. 3 : Holds(Scraped(SourceLabels[n]), k)

\* A wallet scraped from hyperdash in one spelling and from coinmarketman in
\* the other, and not from coinglass, has both labels.
C18_Witness ==
    /\ dpc = "scraped"
    /\ "A" \in {hyperdash_addresses[j] : j \in 1 .. Len(hyperdash_addresses)}
    /\ ~Holds(coinglass_addresses, "a")
    /\ include_cmm
    /\ "a" \in {cmm_addresses[j] : j \in 1 .. Len(cmm_addresses)}
    /\ sources["a"] = <<"hyperdash", "coinmarketman">>

\* C19: the table never has two rows for the same wallet.
C19_OneRowPerWallet ==
    dpc = "table" =>
        \A j, h \in 1 .. Len(rows) :
            j # h => ~SameWallet(rows[j].address, rows[h].address)

\* -------------------------------------- properties of rank_by_performance

\* A row of the input meets the three thresholds and, with the exclusion on,
\* is not flagged.
Qualifies(r) ==
    /\ r.sharpe_ratio.d > 0 /\ min_sharpe.d > 0
    /\ r.sharpe_ratio.n * min_sharpe.d >= min_sharpe.n * r.sharpe_ratio.d
    /\ r.max_drawdown.d > 0 /\ max_drawdown.d > 0
    /\ r.max_drawdown.n * max_drawdown.d <= max_drawdown.n * r.max_drawdown.d
    /\ r.total_trades >= 10
    /\ exclude_hyper_scrapers => ~r.is_hyper_scraper

\* C20: every returned row qualifies, every qualifying input row is returned
\* (once, as it was), and if none qualifies the returned table is empty and
\* has no score or rank.
C20_FilterExact ==
    rpc = "done" =>
        /\ \A j \in 1 .. Len(ranked_df) :
               /\ Qualifies(ranked_df[j].row)
               /\ \E h \in 1 .. Len(df) : df[h] = ranked_df[j].row
        /\ \A h \in 1 .. Len(df) :
               Qualifies(df[h]) =>
                   Cardinality({j \in 1 .. Len(ranked_df) : ranked_df[j].row = df[h]}) = 1
        /\ (\A h \in 1 .. Len(df) : ~Qualifies(df[h])) => ranked_df = <<>> /\ ~has_rank
        /\ ranked_df # <<>> => has_rank

\* A table of which one row sits exactly on the Sharpe and drawdown limits
\* and is returned, and another is dropped, has been ranked.
C20_Witness ==
    /\ rpc = "done"
    /\ Len(df) >= 2
    /\ Len(ranked_df) = 1
    /\ ranked_df[1].row.sharpe_ratio = min_sharpe
    /\ ranked_df[1].row.max_drawdown = max_drawdown
    /\ ranked_df[1].row.total_trades = 10

\* The values of a column of the returned table.
OutColumn(col) == {ranked_df[j].row[col] : j \in 1 .. Len(ranked_df)}

\* The difference of scores p and q in their terms m and n alone, times the
\* two positive denominators.
PairDiff(p, q, m, n) ==
    PolyAdd(PolyTimesDen(PolyTimesDen(PolyConst(FSub(FAdd(p[m].c, p[n].c),
                                                     FAdd(q[m].c, q[n].c))),
                                      p[m].den), p[n].den),
            PolyAdd(PolyTimesDen(PolyConst(FSub(p[m].num, q[m].num)), p[n].den),
                    PolyTimesDen(PolyConst(FSub(p[n].num, q[n].num)), p[m].den)))

\* Term k of every returned score is a number, over a spread that is not
\* negative, and the same for all rows; two scores compare as their other
\* two terms m and n do.
FallsBackTo(k, m, n) ==
    /\ \A j \in 1 .. Len(ranked_df) :
           LET term == ranked_df[j].performance_score[k]
           IN  /\ IsFinite(term.c) /\ IsFinite(term.num) /\ IsFinite(term.den)
               /\ term.den.n >= 0
               /\ term = ranked_df[1].performance_score[k]
    /\ \A j, h \in 1 .. Len(ranked_df) :
           ScoreCmp(ranked_df[j].performance_score, ranked_df[h].performance_score)
               = SignAtEps(PairDiff(ranked_df[j].performance_score,
                                    ranked_df[h].performance_score, m, n))

\* C21: when the surviving rows share one sharpe_ratio, sharpe_normalized is
\* defined and the same for all of them, and any two of their scores compare
\* as 0.3 * drawdown_normalized + 0.2 * winrate_normalized does; likewise
\* for a max_drawdown or a win_rate column of one value.
C21_ZeroSpreadFallsBack ==
    (rpc = "done" /\ has_rank) =>
        /\ Cardinality(OutColumn("sharpe_ratio")) = 1 => FallsBackTo(1, 2, 3)
        /\ Cardinality(OutColumn("max_drawdown")) = 1 => FallsBackTo(2, 1, 3)
        /\ Cardinality(OutColumn("win_rate")) = 1 => FallsBackTo(3, 1, 2)

\* Two rows of one sharpe_ratio have been ranked, the one of lower drawdown
\* and lower win rate first.
C21_Witness ==
    /\ rpc = "done"
    /\ Len(ranked_df) = 2
    /\ ranked_df[1].row.sharpe_ratio = ranked_df[2].row.sharpe_ratio
    /\ ranked_df[1].row.max_drawdown = Norm(3, 10)
    /\ ranked_df[2].row.max_drawdown = Norm(1, 2)
    /\ ranked_df[1].row.win_rate = Norm(2, 5)
    /\ ranked_df[2].row.win_rate = Norm(3, 5)

\* x is the least, or the greatest, value of a column of the returned table.
IsLeast(x, col) == x \in OutColumn(col) /\ \A y \in OutColumn(col) : ~FLt(y, x)
IsGreatest(x, col) == x \in OutColumn(col) /\ \A y \in OutColumn(col) : ~FGt(y, x)

\* C22: the returned rows are the surviving rows, they carry the ranks 1..n
\* in the order returned, no row's score is below that of a row of greater
\* rank, and the score is 0.5 * sharpe_normalized + 0.3 *
\* drawdown_normalized + 0.2 * winrate_normalized.
C22_DenseRanksByScore ==
    (rpc = "done" /\ has_rank) =>
        /\ Len(ranked_df) >= 1
        /\ \A j \in 1 .. Len(ranked_df) : ranked_df[j].rank = j
        /\ \A j, h \in 1 .. Len(ranked_df) :
               j # h => ranked_df[j].row.idx # ranked_df[h].row.idx
        /\ \A j, h \in 1 .. Len(ranked_df) :
               ranked_df[j].rank < ranked_df[h].rank =>
                   ScoreCmp(ranked_df[j].performance_score,
                            ranked_df[h].performance_score) >= 0
        /\ \A j \in 1 .. Len(ranked_df) :
               LET sc == ranked_df[j].performance_score
                   r == ranked_df[j].row
               IN  /\ sc[1].c = F(0) /\ sc[2].c = Norm(3, 10) /\ sc[3].c = F(0)
                   /\ \E lo \in OutColumn("sharpe_ratio") :
                          /\ IsLeast(lo, "sharpe_ratio")
                          /\ FMul(F(2), sc[1].num) = FSub(r.sharpe_ratio, lo)
                          /\ IsGreatest(FAdd(lo, sc[1].den), "sharpe_ratio")
                   /\ \E lo \in OutColumn("win_rate") :
                          /\ IsLeast(lo, "win_rate")
                          /\ FMul(F(5), sc[3].num) = FSub(r.win_rate, lo)
                          /\ IsGreatest(FAdd(lo, sc[3].den), "win_rate")
                   /\ sc[2].num.n <= 0
                   /\ (sc[2].num = F(0)) <=>
                          \/ IsLeast(r.max_drawdown, "max_drawdown")
                          \/ \E lo \in OutColumn("max_drawdown") :
                                 IsTiny(lo) /\ IsTiny(r.max_drawdown)

\* Two rows of different scores have been ranked, against their order in
\* the table.
C22_Witness ==
    /\ rpc = "done"
    /\ Len(ranked_df) = 2
    /\ ranked_df[1].row.idx = 2
    /\ ranked_df[2].row.idx = 1
    /\ ScoreCmp(ranked_df[1].performance_score, ranked_df[2].performance_score) = 1

\* Row a has the sharpe_ratio and the win_rate of row b and a lower drawdown.
LowerDrawdownOnly(a, b) ==
    /\ a.row.sharpe_ratio = b.row.sharpe_ratio
    /\ a.row.win_rate = b.row.win_rate
    /\ a.row.max_drawdown.n * b.row.max_drawdown.d
           < b.row.max_drawdown.n * a.row.max_drawdown.d

\* Row a has a higher score and a smaller rank than row b.
RanksAbove(a, b) ==
    /\ ScoreCmp(a.performance_score, b.performance_score) = 1
    /\ a.rank < b.rank

C24_SnapshotComplete ==
    (xpc = "returned" /\ ~payload.empty) =>
        /\ pos_result.kind = "snapshot"
        /\ \A f \in NumericFields : pos_result.fields[f] # None

\* C25: whatever the options, rank_by_performance leaves the table it is
\* given as it was, which is the full table the run writes, and every row it
\* returns is a row of that table with its sharpe_ratio, max_drawdown,
\* win_rate and total_trades as they were.
C25_RawMetricsUntouched ==
    [][(rpc = "entry" /\ rpc' = "done") =>
          /\ df' = df
          /\ \A j \in 1 .. Len(ranked_df') :
                 \E h \in 1 .. Len(df) :
                     /\ ranked_df'[j].row.idx = df[h].idx
                     /\ ranked_df'[j].row.sharpe_ratio = df[h].sharpe_ratio
                     /\ ranked_df'[j].row.max_drawdown = df[h].max_drawdown
                     /\ ranked_df'[j].row.win_rate = df[h].win_rate
                     /\ ranked_df'[j].row.total_trades = df[h].total_trades]_vars

\* A table of two rows has been ranked under the stricter limits, and one
\* of the rows was returned.
C25_Witness ==
    /\ rpc = "done"
    /\ min_sharpe = F(2)
    /\ Len(df) = 2
    /\ Len(ranked_df) = 1
    /\ has_rank

\* A step of the loop that folds a day into the accumulators and records it.
RecordedStep ==
    /\ apc = "loop"
    /\ i' = i + 1
    /\ history' # history \/ cumulative_pnl' # cumulative_pnl

\* C26: the drawdown of every recorded day, which the code takes against the
\* peak of the days before, equals the drawdown taken after the peak has
\* been raised to the day's cumulative PnL; drawdown_pct is that drawdown
\* over the day's equity, or 0 when the equity is not positive; max_drawdown
\* is the greatest drawdown_pct among the recorded days.
C26_DrawdownOrder ==
    /\ [][RecordedStep =>
            LET running_peak == PyMax(running_max_cum_pnl, cumulative_pnl')
                drawdown == PyMax(F(0), FSub(running_peak, cumulative_pnl'))
            IN  /\ running_max_cum_pnl' = running_peak
                /\ last_key'[1].drawdown_pct =
                       (IF FGt(equity_prev', F(0)) THEN FDiv(drawdown, equity_prev')
                        ELSE F(0))]_vars
    /\ [][(apc = "loop" /\ apc' = "done" /\ ret_site' = "computed") =>
            /\ \E x \in BagToSet(history) : x.drawdown_pct = result'[1].max_drawdown
            /\ \A x \in BagToSet(history) :
                   ~FGt(x.drawdown_pct, result'[1].max_drawdown)]_vars

\* Metrics were computed for a series that fell below its peak and ended on
\* a new peak.
C26_Witness ==
    /\ apc = "done" /\ ret_site = "computed"
    /\ FGt(result[1].max_drawdown, F(0))
    /\ FGt(running_max_cum_pnl, F(0))
    /\ cumulative_pnl = running_max_cum_pnl

\* C27: every day that is recorded has a prior-day equity above 0.
C27_PriorEquityPositive ==
    [][RecordedStep => FGt(prev_equity, F(0))]_vars

\* C28: the win rate of computed metrics lies in [0, 1] and the win days
\* counted do not exceed the recorded days reported as total_trades.
C28_WinDaysWithinTotal ==
    (apc = "done" /\ ret_site = "computed") =>
        /\ win_days <= result[1].total_trades
        /\ ~FLt(result[1].win_rate, F(0))
        /\ ~FGt(result[1].win_rate, F(1))

\* C29: every triple a fetch returns has exactly one of data and error set,
\* so every wallet whose portfolio was fetched is analyzed or carries an
\* error.
C29_PayloadXorError ==
    /\ \A k \in Keys :
           results[k] # None =>
               (results[k][1].data # None) # (results[k][1].error # None)
    /\ portfolio_results # None =>
           \A k \in Keys :
               \/ enriched_data[k][1].analysis # None
               \/ enriched_data[k][1].error \notin {"unset", None}

\* The metric columns of r are those of a zeroed record.
IsDegenerateRow(r) ==
    /\ r.sharpe_ratio = F(0) /\ r.max_drawdown = F(0) /\ r.win_rate = F(0)
    /\ r.total_trades < MinHistoryDays

\* C30: no row that holds a zeroed record is returned by the ranker,
\* whatever the limits, a min_sharpe of 0 included.
C30_DegenerateNeverRanked ==
    rpc = "done" =>
        \A j \in 1 .. Len(ranked_df), h \in 1 .. Len(df) :
            ranked_df[j].row.idx = df[h].idx =>
                ~IsDegenerateRow(df[h]) /\ ~IsDegenerateRow(ranked_df[j].row)

\* A table of a zeroed record and a computed one has been ranked with a
\* min_sharpe of 0, and one row was returned.
C30_Witness ==
    /\ rpc = "done"
    /\ min_sharpe = F(0)
    /\ Len(df) = 2
    /\ IsDegenerateRow(df[1]) /\ df[1].total_trades = 0
    /\ ~IsDegenerateRow(df[2])
    /\ Len(ranked_df) = 1

\* The 1e-6 of the normalisations decides a comparison of scores only where
\* the scores would otherwise be equal.
EpsilonDecidesTiesOnly ==
    rpc = "entry" =>
        LET t == Survivors(df, exclude_hyper_scrapers, min_sharpe, max_drawdown)
        IN  \A j, h \in 1 .. Len(t) : EpsNegligible(ScoreDiff(Scores(t)[j], Scores(t)[h]))

====
